---- MODULE Spec2Model ----
(***************************************************************************)
(* A model of the cifsd VFS helpers of fs/cifssrv/vfs.c: the byte-range    *)
(* lock gate, the level-II oplock break before a write or a truncate, the  *)
(* read/write/truncate entry points, rename under lock_rename, and         *)
(* setattr.  Worker threads (kworkers) run the helpers concurrently; every *)
(* helper is cut into steps at the points where another worker can         *)
(* interleave (a blocking mutex, a call into the backend).                 *)
(***************************************************************************)
EXTENDS Integers, Sequences, FiniteSets, TLC

(* errno values returned, negated, by the helpers *)
ENOENT == 2
EIO == 5
EBADF == 9
EAGAIN == 11
ENOMEM == 12
EACCES == 13
ENOTDIR == 20
EISDIR == 21
EINVAL == 22
ETXTBSY == 26
ENOSPC == 28
ENOTEMPTY == 39
ERANGE == 34
ENODATA == 61
E2BIG == 7

(* bounds of the model *)
MaxPos == 1
MaxCount == 2
MaxLockOps == 1
MaxXattr == 3

Workers == {"w1", "w2"}
NoWorker == "nobody"

(* dentries / inodes; "NULL" is the null pointer, "NEG" a negative dentry *)
Nodes == {"root", "n1", "n2", "n3", "n4"}
NULL == "NULL"
NEG == "NEG"

(* open handles (struct cifssrv_file / struct file) and the fid table *)
Handles == {"h1", "h2", "hd"}
FidSet == {1, 2, 3, 9}

Positions == 0 .. MaxPos
Counts == 0 .. MaxCount
LastByte == MaxPos + MaxCount
Bytes == 0 .. LastByte
Sizes == 0 .. LastByte

F_RDLCK == "F_RDLCK"
F_WRLCK == "F_WRLCK"
F_UNLCK == "F_UNLCK"

VARIABLES
    pc,               \* each worker's position in the helper it runs
    call,             \* the arguments of the helper call in progress
    fp,               \* the handle the call resolved (fp / filp)
    ret,              \* the call's return value
    ev,               \* the steps the call has taken so far, in order
    written,          \* *written of smb_vfs_write: << >> until stored
    outbuf,           \* *buf of smb_vfs_read, *list of smb_vfs_listxattr: << >> until stored
    heap,             \* the buffer the call vmalloc'ed (rbuf, vlist): none, live or freed
    probeConflict,    \* whether another owner's lock covered the range at the probe
    probed,           \* the calls of smb_vfs_locks_mandatory_area: range, type, result
    oplocks_enable,   \* the module parameter
    xattr_value,      \* the extended attribute as the backend holds it
    gx,               \* the locals and the buffer of each worker's smb_vfs_getxattr call
    flushed,          \* the ranges each worker handed to vfs_fsync_range
    ofile_list_lock,  \* holder of the global lease-table mutex
    flc_posix,        \* the posix byte-range locks recorded on inodes
    i_size,           \* size of every inode
    nlockops,         \* lock requests made so far
    tree,             \* the dentry tree: parent, name, kind, hashed of every dentry
    tree0,            \* the dentry tree before any call
    i_mutex,          \* holder of every inode's i_mutex
    s_vfs_rename_mutex, \* holder of the superblock's rename mutex
    rn,               \* the locals of each worker's smb_vfs_rename call
    inode,            \* mode, owner, write count, times and mount flag of every inode
    sa                \* the locals of each worker's smb_vfs_setattr call

vars == << pc, call, fp, ret, ev, written, outbuf, heap, probeConflict, probed,
           oplocks_enable, xattr_value, gx, flushed, ofile_list_lock, flc_posix, i_size, nlockops,
           tree, tree0, i_mutex, s_vfs_rename_mutex, rn, inode, sa >>

ioLocals == << fp, written, outbuf, heap, probeConflict, probed >>
ioVars == << fp, written, outbuf, heap, probeConflict, probed, oplocks_enable, xattr_value, gx, flushed,
             ofile_list_lock, flc_posix, i_size, nlockops >>
attrVars == << inode, sa >>
fsVars == << tree, tree0, i_mutex, s_vfs_rename_mutex, rn, inode, sa >>

Min(a, b) == IF a < b THEN a ELSE b
Max(a, b) == IF a > b THEN a ELSE b

NoCall == [op |-> "none", fid |-> 0, pos |-> 0, count |-> 0, sync |-> FALSE, size |-> 0]

(***************************************************************************)
(* The handle table (fh.c, outside this file): a pure lookup.              *)
(***************************************************************************)
get_id_from_fidtable(fid) ==
    CASE fid = 1 -> "h1"
      [] fid = 2 -> "h2"
      [] fid = 3 -> "hd"
      [] OTHER -> NULL

(* filp->f_path.dentry of an open handle *)
FileDentry(h) ==
    CASE h = "h1" -> "n2"
      [] h = "h2" -> "n2"
      [] OTHER -> "n1"

(* S_ISDIR(inode->i_mode) *)
S_ISDIR_node(n) == tree[n].kind = "dir"

(***************************************************************************)
(* The kernel's posix lock list of an inode.  A lock is a record           *)
(* [inode, owner, type, start, end]; the locks of one owner are kept as    *)
(* the kernel keeps them: maximal runs of bytes of one type.               *)
(***************************************************************************)
LocksOf(L, ino) == {l \in L : l.inode = ino}

OwnerByte(L, ino, o, b) ==
    IF \E l \in L : l.inode = ino /\ l.owner = o /\ l.start <= b /\ b <= l.end
    THEN (CHOOSE l \in L : l.inode = ino /\ l.owner = o /\ l.start <= b /\ b <= l.end).type
    ELSE F_UNLCK

Runs(ino, o, map) ==
    {[inode |-> ino, owner |-> o, type |-> map[s], start |-> s, end |-> e] :
        <<s, e>> \in {p \in Bytes \X Bytes :
            /\ p[1] <= p[2]
            /\ map[p[1]] # F_UNLCK
            /\ \A b \in p[1] .. p[2] : map[b] = map[p[1]]
            /\ (p[1] = 0 \/ map[p[1] - 1] # map[p[1]])
            /\ (p[2] = LastByte \/ map[p[2] + 1] # map[p[1]])}}

(* locks_overlap() *)
locks_overlap(s1, e1, s2, e2) == e1 >= s2 /\ e2 >= s1

(* posix_locks_conflict(caller_fl, sys_fl) *)
posix_locks_conflict(owner, type, start, end, l) ==
    /\ l.owner # owner
    /\ (l.type = F_WRLCK \/ type = F_WRLCK)
    /\ locks_overlap(start, end, l.start, l.end)

(* posix_lock_file() of a request flagged FL_ACCESS: a probe, nothing is recorded *)
posix_lock_file_access(L, ino, owner, type, start, end) ==
    IF \E l \in LocksOf(L, ino) : posix_locks_conflict(owner, type, start, end, l)
    THEN 0 - EAGAIN
    ELSE 0

(* the lock table after the probe, were the request made without          *)
(* FL_ACCESS: a request that meets no conflict is recorded                 *)
posix_lock_file_table_set(L, filp, start, end, type) ==
    IF LocksOf(L, FileDentry(filp)) = {}
       \/ posix_lock_file_access(L, FileDentry(filp), filp, type, start, end) # 0
    THEN L
    ELSE L \cup {[inode |-> FileDentry(filp), owner |-> filp, type |-> type,
                  start |-> start, end |-> end]}

(* lines 984-988: with FL_ACCESS posix_lock_file only tests the request, *)
(* the lock table after the probe is the table before it                  *)
posix_lock_file_table(L, filp, start, end, type) == L

(* lines 965-995 *)
smb_vfs_locks_mandatory_area(L, filp, start, end, type) ==
    IF LocksOf(L, FileDentry(filp)) = {}
    THEN 0
    ELSE posix_lock_file_access(L, FileDentry(filp), filp, type, start, end)

(* whether a lock of another owner covers a byte of [pos, pos+count-1]     *)
(* that the access of the given type may not touch                         *)
OtherOwnerCovers(L, filp, pos, count, type) ==
    \E l \in L :
        /\ l.inode = FileDentry(filp)
        /\ l.owner # filp
        /\ (type = F_WRLCK \/ l.type = F_WRLCK)
        /\ (l.start .. l.end) \cap (pos .. (pos + count - 1)) # {}

(***************************************************************************)
(* smb_vfs_lock(): vfs_lock_file() with F_SETLK, the owner being the       *)
(* handle the request came in on.                                          *)
(***************************************************************************)
smb_vfs_lock(h, type, start, end) ==
    /\ nlockops < MaxLockOps
    /\ ~S_ISDIR_node(FileDentry(h))
    /\ nlockops' = nlockops + 1
    /\ LET ino == FileDentry(h)
           blocked == type # F_UNLCK /\
                      \E l \in LocksOf(flc_posix, ino) :
                          posix_locks_conflict(h, type, start, end, l)
           map == [b \in Bytes |->
                      IF start <= b /\ b <= end THEN type
                      ELSE OwnerByte(flc_posix, ino, h, b)]
       IN  flc_posix' =
              IF blocked THEN flc_posix
              ELSE {l \in flc_posix : ~(l.inode = ino /\ l.owner = h)}
                       \cup Runs(ino, h, map)
    /\ UNCHANGED fsVars
    /\ UNCHANGED << pc, call, ret, ev, ioLocals, oplocks_enable, xattr_value, gx, flushed,
                    ofile_list_lock, i_size >>

(***************************************************************************)
(* smb_vfs_write()                                                         *)
(***************************************************************************)
(* the resolve step of a helper: what it returns on an unknown fid *)
Finish(w, r, e) ==
    /\ pc' = [pc EXCEPT ![w] = "done"]
    /\ ret' = [ret EXCEPT ![w] = r]
    /\ ev' = [ev EXCEPT ![w] = ev[w] \o e]

Goto(w, l, e) ==
    /\ pc' = [pc EXCEPT ![w] = l]
    /\ ev' = [ev EXCEPT ![w] = ev[w] \o e]
    /\ UNCHANGED ret

smb_vfs_write_entry(w, fid, pos, count, sync) ==
    /\ pc[w] = "idle"
    /\ call' = [call EXCEPT ![w] = [op |-> "write", fid |-> fid, pos |-> pos,
                                   count |-> count, sync |-> sync, size |-> 0]]
    /\ fp' = [fp EXCEPT ![w] = get_id_from_fidtable(fid)]
    /\ IF get_id_from_fidtable(fid) = NULL
       THEN Finish(w, 0 - ENOENT, <<"fidtable">>)
       ELSE Goto(w, "w_probe", <<"fidtable">>)
    /\ UNCHANGED fsVars
    /\ UNCHANGED << written, outbuf, heap, probeConflict, probed, oplocks_enable, xattr_value, gx, flushed,
                    ofile_list_lock, flc_posix, i_size, nlockops >>

(* where smb_vfs_write goes after the lock gate let it pass, were the      *)
(* oplock break not made before the backend write                          *)
WriteAfterProbeLate(w) == "w_write"

(* the same, were the break called without taking the lease-table mutex *)
WriteAfterProbeNoLock(w) == IF oplocks_enable THEN "w_break" ELSE "w_write"

(* lines 216-224: where smb_vfs_write goes after the lock gate let it pass *)
WriteAfterProbe(w) == IF oplocks_enable THEN "w_mutex" ELSE "w_write"

(* the return on a lock conflict, were the error dropped *)
WriteOnConflictIgnored(w, err) ==
    Goto(w, WriteAfterProbe(w), <<"probe">>)

(* lines 210-214: the return on a lock conflict *)
WriteOnConflict(w, err) == Finish(w, err, <<"probe">>)

smb_vfs_write_probe(w) ==
    /\ pc[w] = "w_probe"
    /\ LET c == call[w]
           err == smb_vfs_locks_mandatory_area(flc_posix, fp[w], c.pos,
                                               c.pos + c.count - 1, F_WRLCK)
       IN  /\ probeConflict' = [probeConflict EXCEPT ![w] =
                  OtherOwnerCovers(flc_posix, fp[w], c.pos, c.count, F_WRLCK)]
           /\ probed' = [probed EXCEPT ![w] =
                  Append(@, [start |-> c.pos, end |-> c.pos + c.count - 1,
                             type |-> F_WRLCK, err |-> err])]
           /\ IF err = 0 - EAGAIN
              THEN WriteOnConflict(w, err)
              ELSE Goto(w, WriteAfterProbe(w), <<"probe">>)
    /\ UNCHANGED fsVars
    /\ flc_posix' = posix_lock_file_table(flc_posix, fp[w], call[w].pos,
                                          call[w].pos + call[w].count - 1, F_WRLCK)
    /\ UNCHANGED << call, fp, written, outbuf, heap, oplocks_enable, xattr_value, gx, flushed,
                    ofile_list_lock, i_size, nlockops >>

(* mutex_lock(&ofile_list_lock) that does not wait for the holder *)
MutexFreeAlways == TRUE

(* mutex_lock(&ofile_list_lock) blocks while another worker holds it *)
MutexFree == ofile_list_lock = NoWorker

mutex_lock_ofile(w, from, to) ==
    /\ pc[w] = from
    /\ MutexFree
    /\ ofile_list_lock' = w
    /\ Goto(w, to, <<"mutex_lock">>)
    /\ UNCHANGED fsVars
    /\ UNCHANGED << call, ioLocals, oplocks_enable, xattr_value, gx, flushed, flc_posix, i_size, nlockops >>

(* smb_breakII_oplock(server, fp, NULL): the lease subsystem's downgrade *)
smb_breakII_oplock(w, from, to) ==
    /\ pc[w] = from
    /\ Goto(w, to, <<"breakII">>)
    /\ UNCHANGED fsVars
    /\ UNCHANGED << call, ioLocals, oplocks_enable, xattr_value, gx, flushed, ofile_list_lock,
                    flc_posix, i_size, nlockops >>

(* mutex_unlock(&ofile_list_lock) *)
UnlockedHolder(w) == NoWorker

mutex_unlock_ofile(w, from, to) ==
    /\ pc[w] = from
    /\ ofile_list_lock' = UnlockedHolder(w)
    /\ Goto(w, to, <<"mutex_unlock">>)
    /\ UNCHANGED fsVars
    /\ UNCHANGED << call, ioLocals, oplocks_enable, xattr_value, gx, flushed, flc_posix, i_size, nlockops >>

smb_vfs_write_lock(w) == mutex_lock_ofile(w, "w_mutex", "w_break")
smb_vfs_write_break(w) == smb_breakII_oplock(w, "w_break", "w_unlock")
smb_vfs_write_unlock(w) == mutex_unlock_ofile(w, "w_unlock", "w_write")

(* vfs_write(): the bytes written, or a failure *)
VfsWriteOutcomes(h, count) ==
    IF S_ISDIR_node(FileDentry(h))
    THEN {0 - EBADF}
    ELSE {count, 0 - ENOSPC} \cup (IF count > 1 THEN {count - 1} ELSE {})

(* the test of line 235, were every write flushed *)
FlushWantedAlways(sync) == TRUE

(* line 235: if (sync) *)
FlushWanted(sync) == sync

smb_vfs_write_backend(w) ==
    /\ pc[w] = "w_write"
    /\ \E err \in VfsWriteOutcomes(fp[w], call[w].count) :
          IF err < 0
          THEN /\ Finish(w, err, <<"vfs_write">>)
               /\ UNCHANGED << written, i_size >>
          ELSE /\ written' = [written EXCEPT ![w] = <<err>>]
               /\ i_size' = [i_size EXCEPT ![FileDentry(fp[w])] =
                                 IF err > 0 THEN Max(@, call[w].pos + err) ELSE @]
               /\ IF FlushWanted(call[w].sync)
                  THEN Goto(w, "w_fsync", <<"vfs_write">>)
                  ELSE Finish(w, 0, <<"vfs_write">>)
    /\ UNCHANGED fsVars
    /\ UNCHANGED << call, fp, outbuf, heap, probeConflict, probed, oplocks_enable, xattr_value, gx, flushed,
                    ofile_list_lock, flc_posix, nlockops >>

(* vfs_fsync_range(filp, offset, offset + *written, 0) *)
smb_vfs_write_fsync(w) ==
    /\ pc[w] = "w_fsync"
    /\ flushed' = [flushed EXCEPT ![w] =
                      Append(@, [start |-> call[w].pos,
                                 end |-> call[w].pos + written[w][1]])]
    /\ \E err \in {0, 0 - EIO} : Finish(w, err, <<"fsync">>)
    /\ UNCHANGED fsVars
    /\ UNCHANGED << call, ioLocals, oplocks_enable, xattr_value, gx, ofile_list_lock,
                    flc_posix, i_size, nlockops >>

(***************************************************************************)
(* smb_vfs_read()                                                          *)
(***************************************************************************)
(* the directory test of smb_vfs_read, were it missing *)
ReadTargetIsDirNever(h) == FALSE

(* lines 128-130: S_ISDIR(inode->i_mode) of the handle's inode *)
ReadTargetIsDir(h) == S_ISDIR_node(FileDentry(h))

smb_vfs_read_entry(w, fid, pos, count) ==
    /\ pc[w] = "idle"
    /\ call' = [call EXCEPT ![w] = [op |-> "read", fid |-> fid, pos |-> pos,
                                   count |-> count, sync |-> FALSE, size |-> 0]]
    /\ IF count = 0
       THEN /\ Finish(w, 0, << >>)
            /\ UNCHANGED fp
       ELSE /\ fp' = [fp EXCEPT ![w] = get_id_from_fidtable(fid)]
            /\ IF get_id_from_fidtable(fid) = NULL
               THEN Finish(w, 0 - ENOENT, <<"fidtable">>)
               ELSE IF ReadTargetIsDir(get_id_from_fidtable(fid))
                    THEN Finish(w, 0 - EISDIR, <<"fidtable">>)
                    ELSE Goto(w, "r_probe", <<"fidtable">>)
    /\ UNCHANGED fsVars
    /\ UNCHANGED << written, outbuf, heap, probeConflict, probed, oplocks_enable, xattr_value, gx, flushed,
                    ofile_list_lock, flc_posix, i_size, nlockops >>

(* lines 132-144: the lock gate with read intent, then vmalloc(count) *)
smb_vfs_read_probe(w) ==
    /\ pc[w] = "r_probe"
    /\ LET c == call[w]
           r == smb_vfs_locks_mandatory_area(flc_posix, fp[w], c.pos,
                                             c.pos + c.count - 1, F_RDLCK)
       IN  /\ probeConflict' = [probeConflict EXCEPT ![w] =
                  OtherOwnerCovers(flc_posix, fp[w], c.pos, c.count, F_RDLCK)]
           /\ probed' = [probed EXCEPT ![w] =
                  Append(@, [start |-> c.pos, end |-> c.pos + c.count - 1,
                             type |-> F_RDLCK, err |-> r])]
           /\ IF r = 0 - EAGAIN
              THEN /\ Finish(w, r, <<"probe">>)
                   /\ UNCHANGED heap
              ELSE \E allocated \in BOOLEAN :
                      IF allocated
                      THEN /\ heap' = [heap EXCEPT ![w] = "live"]
                           /\ Goto(w, "r_read", <<"probe", "vmalloc">>)
                      ELSE /\ Finish(w, 0 - ENOENT, <<"probe", "vmalloc_failed">>)
                           /\ UNCHANGED heap
    /\ UNCHANGED fsVars
    /\ flc_posix' = posix_lock_file_table(flc_posix, fp[w], call[w].pos,
                                          call[w].pos + call[w].count - 1, F_RDLCK)
    /\ UNCHANGED << call, fp, written, outbuf, oplocks_enable, xattr_value, gx, flushed,
                    ofile_list_lock, i_size, nlockops >>

(* vfs_read(): the bytes read, or a failure *)
VfsReadOutcomes(h, pos, count) ==
    {0 - EIO, Min(count, Max(0, i_size[FileDentry(h)] - pos))}

(* what becomes of rbuf after vfs_read, were the vfree on failure missing *)
ReadDisposeLeak(w, nbytes) ==
    /\ heap' = heap
    /\ outbuf' = IF nbytes < 0 THEN outbuf ELSE [outbuf EXCEPT ![w] = <<"rbuf">>]

(* lines 165-173: vfree(rbuf) on failure, *buf = rbuf otherwise *)
ReadDispose(w, nbytes) ==
    IF nbytes < 0
    THEN /\ heap' = [heap EXCEPT ![w] = "freed"]
         /\ UNCHANGED outbuf
    ELSE /\ outbuf' = [outbuf EXCEPT ![w] = <<"rbuf">>]
         /\ UNCHANGED heap

smb_vfs_read_backend(w) ==
    /\ pc[w] = "r_read"
    /\ \E nbytes \in VfsReadOutcomes(fp[w], call[w].pos, call[w].count) :
          /\ ReadDispose(w, nbytes)
          /\ Finish(w, nbytes, IF nbytes < 0 THEN <<"vfs_read", "vfree">>
                                             ELSE <<"vfs_read">>)
    /\ UNCHANGED fsVars
    /\ UNCHANGED << call, fp, written, probeConflict, probed, oplocks_enable, xattr_value, gx, flushed,
                    ofile_list_lock, flc_posix, i_size, nlockops >>

(***************************************************************************)
(* smb_vfs_truncate() by file id                                           *)
(***************************************************************************)
smb_vfs_truncate_entry(w, fid, size) ==
    /\ pc[w] = "idle"
    /\ call' = [call EXCEPT ![w] = [op |-> "truncate", fid |-> fid, pos |-> 0,
                                   count |-> 0, sync |-> FALSE, size |-> size]]
    /\ fp' = [fp EXCEPT ![w] = get_id_from_fidtable(fid)]
    /\ IF get_id_from_fidtable(fid) = NULL
       THEN Finish(w, 0 - ENOENT, <<"fidtable">>)
       ELSE Goto(w, IF oplocks_enable THEN "t_mutex" ELSE "t_probe", <<"fidtable">>)
    /\ UNCHANGED fsVars
    /\ UNCHANGED << written, outbuf, heap, probeConflict, probed, oplocks_enable, xattr_value, gx, flushed,
                    ofile_list_lock, flc_posix, i_size, nlockops >>

smb_vfs_truncate_lock(w) == mutex_lock_ofile(w, "t_mutex", "t_break")
smb_vfs_truncate_break(w) == smb_breakII_oplock(w, "t_break", "t_unlock")
smb_vfs_truncate_unlock(w) == mutex_unlock_ofile(w, "t_unlock", "t_trunc")

(* the range handed to the probe, were it always the whole file *)
TruncateProbeRangeWhole(size, isz) == [start |-> 0, end |-> Max(size, isz) - 1]

(* lines 785-791: the bytes between the old and the new size *)
TruncateProbeRange(size, isz) ==
    IF size < isz THEN [start |-> size, end |-> isz - 1]
                  ELSE [start |-> isz, end |-> size - 1]

(* lines 784-797: the probe of the bytes between the old and the new size *)
smb_vfs_truncate_probe(w) ==
    /\ pc[w] = "t_probe"
    /\ LET size == call[w].size
           isz == i_size[FileDentry(fp[w])]
           r == TruncateProbeRange(size, isz)
           err == smb_vfs_locks_mandatory_area(flc_posix, fp[w], r.start, r.end, F_WRLCK)
       IN  /\ probeConflict' = [probeConflict EXCEPT ![w] =
                  OtherOwnerCovers(flc_posix, fp[w], Min(size, isz),
                                   Max(size, isz) - Min(size, isz), F_WRLCK)]
           /\ probed' = [probed EXCEPT ![w] =
                  Append(@, [start |-> r.start, end |-> r.end, type |-> F_WRLCK,
                             err |-> err])]
           /\ IF err = 0 - EAGAIN
              THEN Finish(w, err, <<"probe">>)
              ELSE Goto(w, "t_trunc", <<"probe">>)
    /\ UNCHANGED fsVars
    /\ flc_posix' = LET r == TruncateProbeRange(call[w].size, i_size[FileDentry(fp[w])])
                    IN  posix_lock_file_table(flc_posix, fp[w], r.start, r.end, F_WRLCK)
    /\ UNCHANGED << call, fp, written, outbuf, heap, oplocks_enable, xattr_value, gx, flushed,
                    ofile_list_lock, i_size, nlockops >>

(* vfs_truncate() *)
VfsTruncateOutcomes(n) ==
    IF S_ISDIR_node(n) THEN {0 - EISDIR} ELSE {0, 0 - EACCES}

smb_vfs_truncate_backend(w) ==
    /\ pc[w] = "t_trunc"
    /\ \E err \in VfsTruncateOutcomes(FileDentry(fp[w])) :
          /\ Finish(w, err, <<"vfs_truncate">>)
          /\ i_size' = IF err = 0
                       THEN [i_size EXCEPT ![FileDentry(fp[w])] = call[w].size]
                       ELSE i_size
    /\ UNCHANGED fsVars
    /\ UNCHANGED << call, ioLocals, oplocks_enable, xattr_value, gx, flushed, ofile_list_lock,
                    flc_posix, nlockops >>

(***************************************************************************)
(* Reading the record of a call's steps                                    *)
(***************************************************************************)
Has(s, e) == \E i \in 1 .. Len(s) : s[i] = e
Idx(s, e) == IF Has(s, e) THEN CHOOSE i \in 1 .. Len(s) :
                                  s[i] = e /\ \A j \in 1 .. (i - 1) : s[j] # e
             ELSE 0
Count(s, e) == Cardinality({i \in 1 .. Len(s) : s[i] = e})
Returned(w) == pc[w] = "done"
IsOp(w, op) == call[w].op = op

(***************************************************************************)
(* Path names and the dentry tree.  A path name is the sequence of its     *)
(* characters; NoName stands for a NULL name pointer.  A dentry is         *)
(* [parent, name, kind, hashed]: hashed is false once it was unlinked or   *)
(* replaced, kind is "none" for a dentry never created.                    *)
(***************************************************************************)
NoName == << >>

MkDentry(p, nm, k) == [parent |-> p, name |-> nm, kind |-> k, hashed |-> k # "none"]
Unused == MkDentry("root", << >>, "none")

(* /a (dir) holding /a/b (dir); /b a file *)
Tree1 == [n \in Nodes |->
            CASE n = "root" -> MkDentry("root", << >>, "dir")
              [] n = "n1" -> MkDentry("root", <<"a">>, "dir")
              [] n = "n2" -> MkDentry("root", <<"b">>, "file")
              [] n = "n3" -> MkDentry("n1", <<"b">>, "dir")
              [] OTHER -> Unused]

(* /a (dir) holding the file /a/a; /b (dir) holding the file /b/a *)
Tree2 == [n \in Nodes |->
            CASE n = "root" -> MkDentry("root", << >>, "dir")
              [] n = "n1" -> MkDentry("root", <<"a">>, "dir")
              [] n = "n2" -> MkDentry("n1", <<"a">>, "file")
              [] n = "n3" -> MkDentry("root", <<"b">>, "dir")
              [] OTHER -> MkDentry("n3", <<"a">>, "file")]

(* /a (dir) holding the files /a/a and /a/b *)
Tree3 == [n \in Nodes |->
            CASE n = "root" -> MkDentry("root", << >>, "dir")
              [] n = "n1" -> MkDentry("root", <<"a">>, "dir")
              [] n = "n2" -> MkDentry("n1", <<"a">>, "file")
              [] n = "n3" -> MkDentry("n1", <<"b">>, "file")
              [] OTHER -> Unused]

InitTrees == {Tree1, Tree2, Tree3}

IS_ROOT(n) == n = "root"

(* strrchr(name, '/'): the index of the last separator, 0 for none *)
strrchr_slash(s) ==
    IF \E i \in 1 .. Len(s) : s[i] = "/"
    THEN CHOOSE i \in 1 .. Len(s) : s[i] = "/" /\ \A j \in (i + 1) .. Len(s) : s[j] # "/"
    ELSE 0

(* lines 623-630, 640-648, 667-674: the last component, NoName when it    *)
(* cannot be extracted                                                     *)
LastComponent(s) ==
    LET k == strrchr_slash(s)
    IN  IF k # 0 /\ k < Len(s) THEN SubSeq(s, k + 1, Len(s)) ELSE NoName

(* the components of a path name *)
RECURSIVE Split(_)
Split(s) ==
    IF s = << >> THEN << >>
    ELSE IF Head(s) = "/" THEN Split(Tail(s))
    ELSE LET k == IF \E i \in 1 .. Len(s) : s[i] = "/"
                  THEN CHOOSE i \in 1 .. Len(s) :
                          s[i] = "/" /\ \A j \in 1 .. (i - 1) : s[j] # "/"
                  ELSE Len(s) + 1
         IN  << SubSeq(s, 1, k - 1) >> \o
             (IF k >= Len(s) THEN << >> ELSE Split(SubSeq(s, k + 1, Len(s))))

(* the hashed child of a directory with the given name, NEG when absent *)
d_lookup(t, dir, nm) ==
    IF \E n \in Nodes : ~IS_ROOT(n) /\ t[n].hashed /\ t[n].parent = dir /\ t[n].name = nm
    THEN CHOOSE n \in Nodes :
            ~IS_ROOT(n) /\ t[n].hashed /\ t[n].parent = dir /\ t[n].name = nm
    ELSE NEG

(* the walk of kern_path() over the given components *)
RECURSIVE path_walk(_, _, _)
path_walk(t, dir, comps) ==
    IF comps = << >> THEN [err |-> 0, dentry |-> dir]
    ELSE IF t[dir].kind # "dir" THEN [err |-> 0 - ENOTDIR, dentry |-> NULL]
    ELSE IF Head(comps) = <<".">> THEN path_walk(t, dir, Tail(comps))
    ELSE LET d == d_lookup(t, dir, Head(comps))
         IN  IF d = NEG THEN [err |-> 0 - ENOENT, dentry |-> NULL]
             ELSE path_walk(t, d, Tail(comps))

(* kern_path(name, LOOKUP_PARENT, &path): the directory of the last         *)
(* component; every component walked before the last must be a directory   *)
kern_path_parent(t, s) ==
    LET comps == Split(s)
        r == path_walk(t, "root", SubSeq(comps, 1, Len(comps) - 1))
    IN  IF comps = << >> THEN [err |-> 0, dentry |-> "root"]
        ELSE IF r.err = 0 /\ t[r.dentry].kind # "dir"
             THEN [err |-> 0 - ENOTDIR, dentry |-> NULL]
        ELSE r

(* kern_path(name, 0, &path) *)
kern_path(t, s) == path_walk(t, "root", Split(s))

(* lookup_one_len(name, base, len): "." and ".." are refused *)
lookup_one_len(t, nm, base) ==
    IF nm = <<".">> \/ nm = <<".", ".">>
    THEN [err |-> 0 - EACCES, dentry |-> NULL]
    ELSE [err |-> 0, dentry |-> d_lookup(t, base, nm)]

(* d_ancestor(p1, p2): the child of p1 that is p2 or an ancestor of p2 *)
RECURSIVE d_ancestor_from(_, _, _, _)
d_ancestor_from(t, p1, p, fuel) ==
    IF IS_ROOT(p) \/ fuel = 0 THEN NULL
    ELSE IF t[p].parent = p1 THEN p
    ELSE d_ancestor_from(t, p1, t[p].parent, fuel - 1)

d_ancestor(t, p1, p2) == d_ancestor_from(t, p1, p2, Cardinality(Nodes))

(* lock_rename(p1, p2) once s_vfs_rename_mutex is held: the order in which *)
(* the two i_mutexes are taken, and the trap it returns                    *)
lock_rename_plan(t, p1, p2) ==
    IF d_ancestor(t, p2, p1) # NULL
    THEN [first |-> p2, second |-> p1, trap |-> d_ancestor(t, p2, p1)]
    ELSE [first |-> p1, second |-> p2, trap |-> d_ancestor(t, p1, p2)]

HasChildren(t, d) == \E n \in Nodes : ~IS_ROOT(n) /\ t[n].hashed /\ t[n].parent = d

(* vfs_rename(old_dir, old_dentry, new_dir, new_dentry): its result and    *)
(* the tree it leaves.  bug: the BUG_ON of may_delete() when old_dentry is *)
(* not a child of old_dir.                                                 *)
vfs_rename(t, old_dir, dold, new_dir, dnew, newname) ==
    LET same == [err |-> 0, tree |-> t, bug |-> FALSE]
        fail(e) == [err |-> 0 - e, tree |-> t, bug |-> FALSE]
        moved == [n \in Nodes |->
                     IF n = dold THEN [t[n] EXCEPT !.parent = new_dir, !.name = newname]
                     ELSE IF n = dnew THEN [t[n] EXCEPT !.hashed = FALSE]
                     ELSE t[n]]
    IN  IF dold = dnew THEN same
        ELSE IF t[dold].parent # old_dir THEN [err |-> 0, tree |-> t, bug |-> TRUE]
        ELSE IF ~t[dold].hashed THEN fail(ENOENT)
        ELSE IF dnew # NEG /\ t[dold].kind = "dir" /\ t[dnew].kind # "dir" THEN fail(ENOTDIR)
        ELSE IF dnew # NEG /\ t[dold].kind # "dir" /\ t[dnew].kind = "dir" THEN fail(EISDIR)
        ELSE IF dnew # NEG /\ HasChildren(t, dnew) THEN fail(ENOTEMPTY)
        ELSE [err |-> 0, tree |-> moved, bug |-> FALSE]

(***************************************************************************)
(* smb_vfs_rename()                                                        *)
(***************************************************************************)
RefKinds == {"oldpath_p", "newpath_p", "dold", "dnew"}
NoRefs == [k \in RefKinds |-> 0]

NoRn == [dold_p |-> NULL, dnew_p |-> NULL, oldname |-> NoName, newname |-> NoName,
         trap |-> NULL, first |-> NULL, second |-> NULL, dold |-> NULL, dnew |-> NULL,
         label |-> "none", got |-> NoRefs, put |-> NoRefs, locked |-> FALSE]

Take(refs, k) == [refs EXCEPT ![k] = @ + 1]

RenameLeave(w, r, e, locals) ==
    /\ Finish(w, r, e)
    /\ rn' = [rn EXCEPT ![w] = locals]

RenameGoto(w, l, e, locals) ==
    /\ Goto(w, l, e)
    /\ rn' = [rn EXCEPT ![w] = locals]

(* lines 621-638 and 657-665: the source's last component and its parent *)
smb_vfs_rename_entry(w, abs_oldname, abs_newname, oldfid) ==
    /\ pc[w] = "idle"
    /\ call' = [call EXCEPT ![w] = [op |-> "rename", oldname |-> abs_oldname,
                                   newname |-> abs_newname, fid |-> oldfid]]
    /\ IF abs_oldname # NoName
       THEN LET oldname == LastComponent(abs_oldname)
                kp == kern_path_parent(tree, abs_oldname)
            IN  /\ fp' = fp
                /\ IF oldname = NoName
                   THEN RenameLeave(w, 0 - ENOENT, << >>, rn[w])
                   ELSE IF kp.err # 0
                   THEN RenameLeave(w, 0 - ENOENT, <<"kern_path_old">>, rn[w])
                   ELSE RenameGoto(w, "rn_new", <<"kern_path_old">>,
                            [rn[w] EXCEPT !.oldname = oldname, !.dold_p = kp.dentry,
                                          !.got = Take(@, "oldpath_p")])
       ELSE /\ fp' = [fp EXCEPT ![w] = get_id_from_fidtable(oldfid)]
            /\ IF get_id_from_fidtable(oldfid) = NULL
               THEN RenameLeave(w, 0 - ENOENT, <<"fidtable">>, rn[w])
               ELSE RenameGoto(w, "rn_new", <<"fidtable">>,
                        [rn[w] EXCEPT !.dold_p =
                            tree[FileDentry(get_id_from_fidtable(oldfid))].parent])
    /\ UNCHANGED << written, outbuf, heap, probeConflict, probed, oplocks_enable, xattr_value, gx, flushed,
                    ofile_list_lock, flc_posix, i_size, nlockops >>
    /\ UNCHANGED << tree, tree0, i_mutex, s_vfs_rename_mutex >>
    /\ UNCHANGED attrVars

(* the references dropped at label out1 *)
Out1Releases(byname) == IF byname THEN <<"path_put_old">> ELSE << >>

Puts(refs, rel) ==
    [k \in RefKinds |->
        refs[k] + (CASE k = "oldpath_p" -> Count(rel, "path_put_old")
                     [] k = "newpath_p" -> Count(rel, "path_put_new")
                     [] k = "dold" -> Count(rel, "dput_dold")
                     [] OTHER -> Count(rel, "dput_dnew"))]

(* lines 640-656 and 667-682: the destination's last component and parent *)
smb_vfs_rename_new(w) ==
    /\ pc[w] = "rn_new"
    /\ LET byname == call[w].oldname # NoName
           newname == LastComponent(call[w].newname)
           kp == kern_path_parent(tree, call[w].newname)
           out1 == Out1Releases(byname)
       IN  IF newname = NoName
           THEN RenameLeave(w, 0 - ENOMEM, out1,
                            [rn[w] EXCEPT !.put = Puts(@, out1)])
           ELSE IF kp.err # 0
           THEN RenameLeave(w, kp.err, <<"kern_path_new">> \o out1,
                            [rn[w] EXCEPT !.put = Puts(@, out1)])
           ELSE RenameGoto(w, "rn_lock", <<"kern_path_new">>,
                    [rn[w] EXCEPT !.newname = newname, !.dnew_p = kp.dentry,
                                  !.got = Take(@, "newpath_p")])
    /\ UNCHANGED ioVars
    /\ UNCHANGED attrVars
    /\ UNCHANGED << call, tree, tree0, i_mutex, s_vfs_rename_mutex >>

(* lock_rename(): one directory, or the rename mutex and then two *)
lock_rename_begin(w) ==
    /\ pc[w] = "rn_lock"
    /\ LET p1 == rn[w].dold_p
           p2 == rn[w].dnew_p
       IN  IF p1 = p2
           THEN /\ i_mutex[p1] = NoWorker
                /\ i_mutex' = [i_mutex EXCEPT ![p1] = w]
                /\ RenameGoto(w, "rn_body", <<"lock_rename">>,
                              [rn[w] EXCEPT !.trap = NULL, !.locked = TRUE])
                /\ UNCHANGED s_vfs_rename_mutex
           ELSE /\ s_vfs_rename_mutex = NoWorker
                /\ s_vfs_rename_mutex' = w
                /\ LET plan == lock_rename_plan(tree, p1, p2)
                   IN  RenameGoto(w, "rn_lock1", << >>,
                           [rn[w] EXCEPT !.trap = plan.trap, !.first = plan.first,
                                         !.second = plan.second])
                /\ UNCHANGED i_mutex
    /\ UNCHANGED ioVars
    /\ UNCHANGED attrVars
    /\ UNCHANGED << call, tree, tree0 >>

lock_rename_first(w) ==
    /\ pc[w] = "rn_lock1"
    /\ i_mutex[rn[w].first] = NoWorker
    /\ i_mutex' = [i_mutex EXCEPT ![rn[w].first] = w]
    /\ RenameGoto(w, "rn_lock2", << >>, rn[w])
    /\ UNCHANGED ioVars
    /\ UNCHANGED attrVars
    /\ UNCHANGED << call, tree, tree0, s_vfs_rename_mutex >>

lock_rename_second(w) ==
    /\ pc[w] = "rn_lock2"
    /\ i_mutex[rn[w].second] = NoWorker
    /\ i_mutex' = [i_mutex EXCEPT ![rn[w].second] = w]
    /\ RenameGoto(w, "rn_body", <<"lock_rename">>, [rn[w] EXCEPT !.locked = TRUE])
    /\ UNCHANGED ioVars
    /\ UNCHANGED attrVars
    /\ UNCHANGED << call, tree, tree0, s_vfs_rename_mutex >>

(* the source-equals-trap test, were it missing *)
SourceIsTrapNever(dold, trap) == FALSE

(* line 704: dold == trap *)
SourceIsTrap(dold, trap) == dold = trap

(* the destination-equals-trap test, were it missing *)
DestIsTrapNever(dnew, trap) == FALSE

(* line 716: dnew == trap *)
DestIsTrap(dnew, trap) == dnew = trap

(* lines 687-725: the lookups, the trap tests and the backend rename, all  *)
(* made with both parents locked.  label is where the function goes next.  *)
rename_body(t, byname, h, loc) ==
    LET lo == IF byname THEN lookup_one_len(t, loc.oldname, loc.dold_p)
                        ELSE [err |-> 0, dentry |-> FileDentry(h)]
        ln == lookup_one_len(t, loc.newname, loc.dnew_p)
        r == vfs_rename(t, loc.dold_p, lo.dentry, loc.dnew_p, ln.dentry, loc.newname)
        res(e, l, o, n, tr, evs, bug) ==
            [err |-> e, label |-> l, dold |-> o, dnew |-> n, tree |-> tr,
             ev |-> evs, bug |-> bug]
        lk == IF byname THEN <<"lookup_old">> ELSE <<"dget_old">>
    IN  IF lo.err # 0 THEN res(lo.err, "out2", NULL, NULL, t, lk, FALSE)
        ELSE IF lo.dentry = NEG THEN res(0 - ENOENT, "out3", lo.dentry, NULL, t, lk, FALSE)
        ELSE IF SourceIsTrap(lo.dentry, loc.trap)
             THEN res(0 - EINVAL, "out3", lo.dentry, NULL, t, lk, FALSE)
        ELSE IF ln.err # 0
             THEN res(ln.err, "out3", lo.dentry, NULL, t, lk \o <<"lookup_new">>, FALSE)
        ELSE IF DestIsTrap(ln.dentry, loc.trap)
             THEN res(0 - ENOTEMPTY, "out4", lo.dentry, ln.dentry, t,
                      lk \o <<"lookup_new">>, FALSE)
        ELSE res(r.err, "out4", lo.dentry, ln.dentry, r.tree,
                 lk \o <<"lookup_new", "vfs_rename">>, r.bug)

smb_vfs_rename_body(w) ==
    /\ pc[w] = "rn_body"
    /\ LET b == rename_body(tree, call[w].oldname # NoName, fp[w], rn[w])
           locals == [rn[w] EXCEPT !.dold = b.dold, !.dnew = b.dnew, !.label = b.label,
                          !.got = [@ EXCEPT !["dold"] = IF b.label = "out2" THEN @ ELSE @ + 1,
                                            !["dnew"] = IF b.label = "out4" THEN @ + 1 ELSE @]]
       IN  /\ tree' = b.tree
           /\ rn' = [rn EXCEPT ![w] = locals]
           /\ ret' = [ret EXCEPT ![w] = b.err]
           /\ ev' = [ev EXCEPT ![w] = ev[w] \o b.ev]
           /\ pc' = [pc EXCEPT ![w] = IF b.bug THEN "oops" ELSE "rn_out"]
    /\ UNCHANGED ioVars
    /\ UNCHANGED attrVars
    /\ UNCHANGED << call, tree0, i_mutex, s_vfs_rename_mutex >>

(* the exit path, were unlock_rename left out after a failed trap test *)
ExitReleasesLeak(label, byname) ==
    (IF label = "out4" THEN <<"dput_dnew">> ELSE << >>)
    \o (IF label \in {"out4", "out3"} THEN <<"dput_dold">> ELSE << >>)
    \o (IF label = "out3" THEN << >> ELSE <<"unlock_rename">>)
    \o <<"path_put_new">> \o Out1Releases(byname)

(* the exit path, were the source dentry put a second time at out4 *)
ExitReleasesTwice(label, byname) ==
    (IF label = "out4" THEN <<"dput_dnew", "dput_dold">> ELSE << >>)
    \o (IF label \in {"out4", "out3"} THEN <<"dput_dold">> ELSE << >>)
    \o <<"unlock_rename", "path_put_new">> \o Out1Releases(byname)

(* lines 727-737: what is released from the label on *)
ExitReleases(label, byname) ==
    (IF label = "out4" THEN <<"dput_dnew">> ELSE << >>)
    \o (IF label \in {"out4", "out3"} THEN <<"dput_dold">> ELSE << >>)
    \o <<"unlock_rename", "path_put_new">> \o Out1Releases(byname)

(* unlock_rename(p1, p2) *)
unlock_rename(m, p1, p2) == [n \in Nodes |-> IF n \in {p1, p2} THEN NoWorker ELSE m[n]]

smb_vfs_rename_exit(w) ==
    /\ pc[w] = "rn_out"
    /\ LET rel == ExitReleases(rn[w].label, call[w].oldname # NoName)
           unlocks == Has(rel, "unlock_rename")
       IN  /\ i_mutex' = IF unlocks THEN unlock_rename(i_mutex, rn[w].dold_p, rn[w].dnew_p)
                         ELSE i_mutex
           /\ s_vfs_rename_mutex' =
                 IF unlocks /\ rn[w].dold_p # rn[w].dnew_p THEN NoWorker
                 ELSE s_vfs_rename_mutex
           /\ rn' = [rn EXCEPT ![w] = [@ EXCEPT !.put = Puts(@, rel),
                                                !.locked = ~unlocks]]
           /\ pc' = [pc EXCEPT ![w] = "done"]
           /\ ev' = [ev EXCEPT ![w] = ev[w] \o rel]
    /\ UNCHANGED ioVars
    /\ UNCHANGED attrVars
    /\ UNCHANGED << call, ret, tree, tree0 >>

(***************************************************************************)
(* Inodes and attribute changes.  A mode and an ia_valid word are the sets *)
(* of the bits that are set in them; an inode is                           *)
(* [i_mode, i_uid, i_gid, i_writecount, i_mtime, i_ctime, s_mandlock],     *)
(* s_mandlock being MS_MANDLOCK of its superblock.                         *)
(***************************************************************************)
S_IFMT == {"S_IFREG", "S_IFDIR", "S_IFLNK"}
S_IALLUGO == {"S_ISUID", "S_ISGID", "S_IXGRP", "S_IRUSR"}

S_ISDIR(mode) == "S_IFDIR" \in mode
S_ISLNK(mode) == "S_IFLNK" \in mode

TypeBit(kind) ==
    CASE kind = "dir" -> {"S_IFDIR"}
      [] kind = "lnk" -> {"S_IFLNK"}
      [] kind = "file" -> {"S_IFREG"}
      [] OTHER -> {}

MkInode(mode, wc, mand) ==
    [i_mode |-> mode, i_uid |-> 0, i_gid |-> 0, i_writecount |-> wc,
     i_mtime |-> 0, i_ctime |-> 0, s_mandlock |-> mand]

(* the inodes of a tree nobody changed the attributes of *)
PlainInodes(t) == [n \in Nodes |-> MkInode(TypeBit(t[n].kind) \cup {"S_IRUSR"}, 0, FALSE)]

(* /a a directory, /b a file, /c a symbolic link *)
Tree4 == [n \in Nodes |->
            CASE n = "root" -> MkDentry("root", << >>, "dir")
              [] n = "n1" -> MkDentry("root", <<"a">>, "dir")
              [] n = "n2" -> MkDentry("root", <<"b">>, "file")
              [] n = "n3" -> MkDentry("root", <<"c">>, "lnk")
              [] OTHER -> Unused]

(* the sanitized mode, were the requested mode taken as it came *)
SanitizeModeUnmasked(i_mode, ia_mode) == ia_mode

(* lines 254-255: permission bits of the request, other bits of the inode *)
SanitizeMode(i_mode, ia_mode) == (ia_mode \cap S_IALLUGO) \cup (i_mode \ S_IALLUGO)

(* the test of lines 259-263, were directories not excepted *)
ChownRevokesDirsToo(ino, attrs) ==
    \/ ("ATTR_UID" \in attrs.ia_valid /\ attrs.ia_uid # ino.i_uid)
    \/ ("ATTR_GID" \in attrs.ia_valid /\ attrs.ia_gid # ino.i_gid)

(* lines 259-263: a non-directory whose owner or group the request changes *)
ChownRevokes(ino, attrs) ==
    /\ ~S_ISDIR(ino.i_mode)
    /\ \/ ("ATTR_UID" \in attrs.ia_valid /\ attrs.ia_uid # ino.i_uid)
       \/ ("ATTR_GID" \in attrs.ia_valid /\ attrs.ia_gid # ino.i_gid)

(* smb_check_attrs(), were the revocation on chown (lines 258-274) missing *)
smb_check_attrs_nokill(ino, attrs) ==
    IF "ATTR_MODE" \in attrs.ia_valid
    THEN [attrs EXCEPT !.ia_mode = SanitizeMode(ino.i_mode, @)]
    ELSE attrs

(* lines 250-275 *)
smb_check_attrs(ino, attrs) ==
    LET a1 == IF "ATTR_MODE" \in attrs.ia_valid
              THEN [attrs EXCEPT !.ia_mode = SanitizeMode(ino.i_mode, @)]
              ELSE attrs
        chown == ChownRevokes(ino, a1)
        a2 == [a1 EXCEPT !.ia_valid = @ \cup {"ATTR_KILL_PRIV"}]
        nosuid == a2.ia_mode \ {"S_ISUID"}
    IN  IF ~chown THEN a1
        ELSE IF "ATTR_MODE" \in a2.ia_valid
        THEN [a2 EXCEPT !.ia_mode = IF "S_IXGRP" \in nosuid
                                    THEN nosuid \ {"S_ISGID"}
                                    ELSE nosuid]
        ELSE [a2 EXCEPT !.ia_valid = @ \cup {"ATTR_KILL_SUID", "ATTR_KILL_SGID"}]

(* get_write_access(inode): refused while the inode is mapped for execution *)
get_write_access(ino) ==
    IF ino.i_writecount < 0
    THEN [err |-> 0 - ETXTBSY, inode |-> ino]
    ELSE [err |-> 0, inode |-> [ino EXCEPT !.i_writecount = @ + 1]]

(* put_write_access(), were it to leave the count alone *)
put_write_access_none(ino) == ino

put_write_access(ino) == [ino EXCEPT !.i_writecount = @ - 1]

(* mandatory_lock(inode) *)
mandatory_lock(ino) ==
    /\ ino.s_mandlock
    /\ "S_ISGID" \in ino.i_mode
    /\ "S_IXGRP" \notin ino.i_mode

(* locks_verify_truncate(inode, NULL, size): a write probe, owned by the   *)
(* calling thread, of the bytes between the old and the new size           *)
locks_verify_truncate(L, n, ino, isz, size) ==
    LET start == IF size < isz THEN size ELSE isz
        len == IF size < isz THEN isz - size ELSE size - isz
    IN  IF LocksOf(L, n) # {} /\ mandatory_lock(ino)
        THEN posix_lock_file_access(L, n, "current", F_WRLCK, start, start + len - 1)
        ELSE 0

(* notify_change() when it succeeds: the inode it leaves *)
notify_change(ino, attrs) ==
    LET v == attrs.ia_valid
        m0 == IF "ATTR_MODE" \in v THEN attrs.ia_mode ELSE ino.i_mode
        m1 == IF "ATTR_KILL_SUID" \in v THEN m0 \ {"S_ISUID"} ELSE m0
        m2 == IF "ATTR_KILL_SGID" \in v /\ "S_IXGRP" \in m1 THEN m1 \ {"S_ISGID"} ELSE m1
    IN  [ino EXCEPT !.i_mode = m2,
                    !.i_uid = IF "ATTR_UID" \in v THEN attrs.ia_uid ELSE @,
                    !.i_gid = IF "ATTR_GID" \in v THEN attrs.ia_gid ELSE @,
                    !.i_mtime = IF "ATTR_MTIME" \in v THEN attrs.ia_mtime ELSE @,
                    !.i_ctime = IF "ATTR_CTIME" \in v THEN 1 ELSE @]

NotifyChangeOutcomes == {0, 0 - EACCES}

(***************************************************************************)
(* smb_vfs_truncate() by name, lines 758-769 and 805                       *)
(***************************************************************************)
(* the release of the path, were it made only after a truncate that worked *)
TruncatePathPutOnSuccess(err) == IF err = 0 THEN <<"path_put">> ELSE << >>

(* line 768: path_put(&path) whatever vfs_truncate returned *)
TruncatePathPut(err) == <<"path_put">>

smb_vfs_truncate_name(w, name, size) ==
    /\ pc[w] = "idle"
    /\ name # NoName
    /\ call' = [call EXCEPT ![w] = [op |-> "truncate", fid |-> 0, pos |-> 0,
                                   count |-> 0, sync |-> FALSE, size |-> size,
                                   name |-> name]]
    /\ LET kp == kern_path(tree, name)
       IN  IF kp.err # 0
           THEN /\ Finish(w, kp.err, <<"kern_path">>)
                /\ UNCHANGED i_size
           ELSE \E err \in VfsTruncateOutcomes(kp.dentry) :
                   /\ Finish(w, err, <<"kern_path", "vfs_truncate">> \o TruncatePathPut(err))
                   /\ i_size' = IF err = 0 THEN [i_size EXCEPT ![kp.dentry] = size]
                                           ELSE i_size
    /\ UNCHANGED fsVars
    /\ UNCHANGED << ioLocals, oplocks_enable, xattr_value, gx, flushed, ofile_list_lock, flc_posix, nlockops >>

(* a call of smb_check_attrs(inode, attrs) on its own: the sanitized       *)
(* change set is left in sa[w].attrs, the inode it was given in            *)
(* sa[w].before                                                            *)
smb_check_attrs_call(w, n, attrs) ==
    /\ pc[w] = "idle"
    /\ call' = [call EXCEPT ![w] = [op |-> "check_attrs", node |-> n, attrs |-> attrs]]
    /\ sa' = [sa EXCEPT ![w] = [dentry |-> n, attrs |-> smb_check_attrs(inode[n], attrs),
                                update_size |-> FALSE, before |-> inode[n],
                                size_before |-> i_size[n]]]
    /\ Finish(w, 0, <<"smb_check_attrs">>)
    /\ UNCHANGED ioVars
    /\ UNCHANGED << tree, tree0, i_mutex, s_vfs_rename_mutex, rn, inode >>

(***************************************************************************)
(* smb_vfs_setattr()                                                       *)
(***************************************************************************)
NoAttrs == [ia_valid |-> {}, ia_mode |-> {}, ia_uid |-> 0, ia_gid |-> 0,
            ia_size |-> 0, ia_mtime |-> 0]

NoSa == [dentry |-> NULL, attrs |-> NoAttrs, update_size |-> FALSE,
         before |-> MkInode({}, 0, FALSE), size_before |-> 0]

(* label out, lines 360-363 *)
SetattrOut(byname) == IF byname THEN <<"path_put">> ELSE << >>

(* the test of lines 323-326, were it never to find the change set empty *)
NothingToUpdateNever(attrs) == FALSE

(* lines 323-326: skip setattr, if nothing to update *)
NothingToUpdate(attrs) == attrs.ia_valid = {}

(* lines 318-342 on the resolved inode: the change set handed on, the      *)
(* inode as the write-access steps leave it, and where the function goes   *)
setattr_prepare(L, n, ino, isz, attrs) ==
    LET a0 == IF S_ISLNK(ino.i_mode)
              THEN [attrs EXCEPT !.ia_valid = @ \ {"ATTR_MODE"}]
              ELSE attrs
        a1 == smb_check_attrs(ino, a0)
        gwa == get_write_access(ino)
        lvt == locks_verify_truncate(L, n, gwa.inode, isz, a1.ia_size)
        res(e, go, a, i, u, evs) ==
            [err |-> e, go |-> go, attrs |-> a, inode |-> i, update_size |-> u, ev |-> evs]
    IN  IF NothingToUpdate(a0) THEN res(0, FALSE, a0, ino, FALSE, << >>)
        ELSE IF "ATTR_SIZE" \notin a1.ia_valid
        THEN res(0, TRUE, [a1 EXCEPT !.ia_valid = @ \cup {"ATTR_CTIME"}], ino, FALSE,
                 <<"smb_check_attrs">>)
        ELSE IF gwa.err # 0
        THEN res(gwa.err, FALSE, a1, ino, FALSE,
                 <<"smb_check_attrs", "get_write_access_failed">>)
        ELSE IF lvt # 0
        THEN res(lvt, FALSE, a1, put_write_access(gwa.inode), FALSE,
                 <<"smb_check_attrs", "get_write_access",
                   "locks_verify_truncate_failed", "put_write_access">>)
        ELSE res(0, TRUE, [a1 EXCEPT !.ia_valid = @ \cup {"ATTR_CTIME"}], gwa.inode, TRUE,
                 <<"smb_check_attrs", "get_write_access", "locks_verify_truncate">>)

(* lines 297-342 *)
smb_vfs_setattr_entry(w, name, fid, attrs) ==
    /\ pc[w] = "idle"
    /\ call' = [call EXCEPT ![w] = [op |-> "setattr", name |-> name, fid |-> fid,
                                   attrs |-> attrs]]
    /\ LET byname == name # NoName
           kp == kern_path(tree, name)
           h == get_id_from_fidtable(fid)
           n == IF byname THEN kp.dentry ELSE FileDentry(h)
           p == setattr_prepare(flc_posix, n, inode[n], i_size[n], attrs)
           how == IF byname THEN <<"kern_path">> ELSE <<"fidtable">>
       IN  /\ fp' = [fp EXCEPT ![w] = IF byname THEN NULL ELSE h]
           /\ IF (byname /\ kp.err # 0) \/ (~byname /\ h = NULL)
              THEN /\ Finish(w, 0 - ENOENT, how)
                   /\ UNCHANGED attrVars
              ELSE /\ inode' = [inode EXCEPT ![n] = p.inode]
                   /\ sa' = [sa EXCEPT ![w] =
                                [dentry |-> n, attrs |-> p.attrs,
                                 update_size |-> p.update_size,
                                 before |-> inode[n], size_before |-> i_size[n]]]
                   /\ IF p.go
                      THEN Goto(w, "sa_mutex", how \o p.ev)
                      ELSE Finish(w, p.err, how \o p.ev \o SetattrOut(byname))
    /\ UNCHANGED << written, outbuf, heap, probeConflict, probed, oplocks_enable, xattr_value, gx, flushed,
                    ofile_list_lock, flc_posix, i_size, nlockops >>
    /\ UNCHANGED << tree, tree0, i_mutex, s_vfs_rename_mutex, rn >>

(* line 344 *)
smb_vfs_setattr_lock(w) ==
    /\ pc[w] = "sa_mutex"
    /\ i_mutex[sa[w].dentry] = NoWorker
    /\ i_mutex' = [i_mutex EXCEPT ![sa[w].dentry] = w]
    /\ Goto(w, "sa_notify", <<"mutex_lock">>)
    /\ UNCHANGED ioVars
    /\ UNCHANGED << call, tree, tree0, s_vfs_rename_mutex, rn, inode, sa >>

(* lines 346-363 *)
smb_vfs_setattr_notify(w) ==
    /\ pc[w] = "sa_notify"
    /\ \E err \in NotifyChangeOutcomes :
          LET n == sa[w].dentry
              changed == IF err = 0 THEN notify_change(inode[n], sa[w].attrs) ELSE inode[n]
              after == IF sa[w].update_size THEN put_write_access(changed) ELSE changed
          IN  /\ inode' = [inode EXCEPT ![n] = after]
              /\ i_size' = IF err = 0 /\ "ATTR_SIZE" \in sa[w].attrs.ia_valid
                           THEN [i_size EXCEPT ![n] = sa[w].attrs.ia_size]
                           ELSE i_size
              /\ i_mutex' = [i_mutex EXCEPT ![n] = NoWorker]
              /\ Finish(w, err,
                        <<"notify_change", "mutex_unlock">>
                        \o (IF sa[w].update_size THEN <<"put_write_access">> ELSE << >>)
                        \o (IF err = 0 THEN <<"sync_inode_metadata">> ELSE << >>)
                        \o SetattrOut(call[w].name # NoName))
    /\ UNCHANGED << call, fp, written, outbuf, heap, probeConflict, probed, oplocks_enable, xattr_value, gx, flushed,
                    ofile_list_lock, flc_posix, nlockops >>
    /\ UNCHANGED << tree, tree0, s_vfs_rename_mutex, rn, sa >>

(***************************************************************************)
(* smb_vfs_getxattr(), lines 851-869.  One extended attribute of one       *)
(* dentry: absent, or a value of some length whose bytes all equal that    *)
(* length.  The caller's buffer starts filled with zeros.                  *)
(***************************************************************************)
NoXattr == [present |-> FALSE, value |-> << >>]

XattrOfLen(n) == [present |-> TRUE, value |-> [i \in 1 .. n |-> n]]

XattrValues == {NoXattr} \cup {XattrOfLen(n) : n \in 0 .. MaxXattr}

NoGx == [buf |-> << >>, xattr_len |-> 0, asked |-> << >>]

(* vfs_getxattr(dentry, name, buf, size): the length for size 0, -ERANGE   *)
(* when the value does not fit in size, else the value copied to the front *)
(* of buf                                                                  *)
vfs_getxattr(x, buf, size) ==
    LET n == Len(x.value)
    IN  IF ~x.present THEN [ret |-> 0 - ENODATA, buf |-> buf]
        ELSE IF size = 0 THEN [ret |-> n, buf |-> buf]
        ELSE IF n > size THEN [ret |-> 0 - ERANGE, buf |-> buf]
        ELSE [ret |-> n,
              buf |-> [i \in 1 .. Max(Len(buf), n) |-> IF i <= n THEN x.value[i] ELSE buf[i]]]

(* the test of lines 861-862, were every length to pass it *)
XattrTooLongNever(xattr_len, buf_len) == FALSE

(* lines 861-862 *)
XattrTooLong(xattr_len, buf_len) == xattr_len > buf_len

(* lines 855-862: the length query *)
smb_vfs_getxattr_query(w, buf_len) ==
    /\ pc[w] = "idle"
    /\ call' = [call EXCEPT ![w] = [op |-> "getxattr", fid |-> 0, pos |-> 0,
                                   count |-> 0, sync |-> FALSE, size |-> 0,
                                   buf_len |-> buf_len]]
    /\ LET xattr_len == vfs_getxattr(xattr_value, << >>, 0).ret
       IN  /\ gx' = [gx EXCEPT ![w] = [buf |-> [i \in 1 .. buf_len |-> 0],
                                       xattr_len |-> xattr_len, asked |-> << >>]]
           /\ IF xattr_len <= 0
              THEN Finish(w, xattr_len, <<"vfs_getxattr_len">>)
              ELSE IF XattrTooLong(xattr_len, buf_len)
              THEN Finish(w, 0 - ENOMEM, <<"vfs_getxattr_len">>)
              ELSE Goto(w, "gx_fetch", <<"vfs_getxattr_len">>)
    /\ UNCHANGED fsVars
    /\ UNCHANGED << ioLocals, oplocks_enable, xattr_value, flushed, ofile_list_lock, flc_posix,
                    i_size, nlockops >>

(* lines 864-868: the fetch into the caller's buffer *)
smb_vfs_getxattr_fetch(w) ==
    /\ pc[w] = "gx_fetch"
    /\ LET r == vfs_getxattr(xattr_value, gx[w].buf, gx[w].xattr_len)
       IN  /\ gx' = [gx EXCEPT ![w].buf = r.buf,
                               ![w].asked = Append(@, gx[w].xattr_len)]
           /\ Finish(w, r.ret, <<"vfs_getxattr">>)
    /\ UNCHANGED fsVars
    /\ UNCHANGED << call, ioLocals, oplocks_enable, xattr_value, flushed, ofile_list_lock,
                    flc_posix, i_size, nlockops >>

(* vfs_setxattr() or a removal by another request: the attribute changes *)
vfs_setxattr(x) ==
    /\ x # xattr_value
    /\ xattr_value' = x
    /\ UNCHANGED fsVars
    /\ UNCHANGED << pc, call, ret, ev, ioLocals, oplocks_enable, gx, flushed, ofile_list_lock,
                    flc_posix, i_size, nlockops >>

(***************************************************************************)
(* smb_vfs_listxattr(), lines 816-840.  The list of a dentry's attribute   *)
(* names holds the one name, two bytes with its terminator, when the       *)
(* attribute is present.  XATTR_LIST_MAX is 65536 in the kernel headers    *)
(* and is scaled down here.                                                *)
(***************************************************************************)
XATTR_LIST_MAX == 3

ListSizes == 0 .. XATTR_LIST_MAX + 1

XattrNames(x) == IF x.present THEN <<"x", "nul">> ELSE << >>

(* vfs_listxattr(dentry, vlist, size): the length of the list for size 0,  *)
(* -ERANGE when the list does not fit in size, else the length of the list *)
(* copied; or a failure of the backend                                     *)
vfs_listxattr(x, size) ==
    LET n == Len(XattrNames(x))
    IN  {0 - EIO} \cup
        {IF size = 0 THEN n ELSE IF n > size THEN 0 - ERANGE ELSE n}

(* lines 821-827: the cap of size and vmalloc(size) *)
smb_vfs_listxattr_alloc(w, size) ==
    /\ pc[w] = "idle"
    /\ call' = [call EXCEPT ![w] = [op |-> "listxattr", fid |-> 0, pos |-> 0,
                                   count |-> 0, sync |-> FALSE,
                                   size |-> IF size > XATTR_LIST_MAX
                                            THEN XATTR_LIST_MAX ELSE size]]
    /\ IF size # 0
       THEN \E allocated \in BOOLEAN :
               IF allocated
               THEN /\ heap' = [heap EXCEPT ![w] = "live"]
                    /\ Goto(w, "lx_list", <<"vmalloc">>)
               ELSE /\ Finish(w, 0 - ENOMEM, <<"vmalloc_failed">>)
                    /\ UNCHANGED heap
       ELSE /\ Goto(w, "lx_list", << >>)
            /\ UNCHANGED heap
    /\ UNCHANGED fsVars
    /\ UNCHANGED << fp, written, outbuf, probeConflict, probed, oplocks_enable, xattr_value,
                    gx, flushed, ofile_list_lock, flc_posix, i_size, nlockops >>

(* lines 829-839: vfs_listxattr, *list = vlist for a result above zero,    *)
(* -ERANGE turned into -E2BIG; vlist is NULL when size was 0, and the      *)
(* function holds no vfree                                                 *)
smb_vfs_listxattr_list(w) ==
    /\ pc[w] = "lx_list"
    /\ \E err \in vfs_listxattr(xattr_value, call[w].size) :
          /\ outbuf' = IF err > 0 /\ heap[w] = "live"
                       THEN [outbuf EXCEPT ![w] = <<"vlist">>]
                       ELSE outbuf
          /\ Finish(w, IF err = 0 - ERANGE THEN 0 - E2BIG ELSE err, <<"vfs_listxattr">>)
    /\ UNCHANGED fsVars
    /\ UNCHANGED << call, fp, written, heap, probeConflict, probed, oplocks_enable,
                    xattr_value, gx, flushed, ofile_list_lock, flc_posix, i_size, nlockops >>

(***************************************************************************)
(* The specifications.  Spec: one worker runs one helper call while lock   *)
(* requests arrive on the handles.  SpecIOConc: two workers write and      *)
(* truncate concurrently.                                                  *)
(***************************************************************************)
SeqWorkers == {"w1"}

(* lock tables left behind by earlier smb_vfs_lock() requests *)
SmallLockTables ==
    { {},
      {[inode |-> "n2", owner |-> "h2", type |-> F_WRLCK, start |-> 0, end |-> 1]},
      {[inode |-> "n2", owner |-> "h2", type |-> F_RDLCK, start |-> 1, end |-> LastByte]} }

InitLockTables ==
    { {} } \cup
    { {[inode |-> "n2", owner |-> "h2", type |-> t, start |-> r[1], end |-> r[2]]} :
         t \in {F_RDLCK, F_WRLCK},
         r \in { <<0, 0>>, <<0, 1>>, <<1, LastByte>>, <<LastByte, LastByte>> } }

InitSizes == {0, MaxCount}

LockRequests ==
    {r \in [h : {"h1", "h2"}, type : {F_RDLCK, F_WRLCK, F_UNLCK},
            start : Bytes, end : Bytes] :
        \/ r.type = F_WRLCK /\ r.start = 0 /\ r.end = 0
        \/ r.type = F_RDLCK /\ r.start = LastByte /\ r.end = LastByte
        \/ r.type = F_UNLCK /\ r.start = 0 /\ r.end = LastByte}

InitLocals ==
    /\ pc = [w \in Workers |-> "idle"]
    /\ call = [w \in Workers |-> NoCall]
    /\ fp = [w \in Workers |-> NULL]
    /\ ret = [w \in Workers |-> 0]
    /\ ev = [w \in Workers |-> << >>]
    /\ written = [w \in Workers |-> << >>]
    /\ outbuf = [w \in Workers |-> << >>]
    /\ heap = [w \in Workers |-> "none"]
    /\ probeConflict = [w \in Workers |-> FALSE]
    /\ probed = [w \in Workers |-> << >>]
    /\ gx = [w \in Workers |-> NoGx]
    /\ flushed = [w \in Workers |-> << >>]
    /\ ofile_list_lock = NoWorker
    /\ nlockops = 0
    /\ i_mutex = [n \in Nodes |-> NoWorker]
    /\ s_vfs_rename_mutex = NoWorker
    /\ rn = [w \in Workers |-> NoRn]
    /\ sa = [w \in Workers |-> NoSa]

(* names given to smb_vfs_truncate: a file, a directory, a name that does *)
(* not exist and a name below a file                                      *)
TruncateNames == { <<"/", "b">>, <<"/", "a">>, <<"/", "x">>, <<"/", "b", "/", "a">> }

Init ==
    /\ InitLocals
    /\ xattr_value = NoXattr
    /\ oplocks_enable \in BOOLEAN
    /\ flc_posix \in InitLockTables
    /\ i_size \in {[n \in Nodes |-> IF n = "n2" THEN s ELSE 0] : s \in InitSizes}
    /\ tree = Tree1
    /\ tree0 = tree
    /\ inode = PlainInodes(tree)

LockStep ==
    \E r \in LockRequests : smb_vfs_lock(r.h, r.type, r.start, r.end)

Next ==
    \/ LockStep
    \/ \E w \in SeqWorkers, fid \in FidSet, pos \in Positions, count \in Counts,
          sync \in BOOLEAN : smb_vfs_write_entry(w, fid, pos, count, sync)
    \/ \E w \in SeqWorkers : smb_vfs_write_probe(w)
    \/ \E w \in SeqWorkers : smb_vfs_write_lock(w)
    \/ \E w \in SeqWorkers : smb_vfs_write_break(w)
    \/ \E w \in SeqWorkers : smb_vfs_write_unlock(w)
    \/ \E w \in SeqWorkers : smb_vfs_write_backend(w)
    \/ \E w \in SeqWorkers : smb_vfs_write_fsync(w)
    \/ \E w \in SeqWorkers, fid \in FidSet, pos \in Positions, count \in Counts :
          smb_vfs_read_entry(w, fid, pos, count)
    \/ \E w \in SeqWorkers : smb_vfs_read_probe(w)
    \/ \E w \in SeqWorkers : smb_vfs_read_backend(w)
    \/ \E w \in SeqWorkers, fid \in FidSet, size \in Sizes :
          smb_vfs_truncate_entry(w, fid, size)
    \/ \E w \in SeqWorkers : smb_vfs_truncate_lock(w)
    \/ \E w \in SeqWorkers : smb_vfs_truncate_break(w)
    \/ \E w \in SeqWorkers : smb_vfs_truncate_unlock(w)
    \/ \E w \in SeqWorkers : smb_vfs_truncate_probe(w)
    \/ \E w \in SeqWorkers : smb_vfs_truncate_backend(w)
    \/ \E w \in SeqWorkers, name \in TruncateNames, size \in Sizes :
          smb_vfs_truncate_name(w, name, size)

Spec == Init /\ [][Next]_vars

(* two workers; the arguments that do not bear on the interleaving are fixed *)
ConcFids == {1, 2}

InitIOConc ==
    /\ InitLocals
    /\ xattr_value = NoXattr
    /\ oplocks_enable \in BOOLEAN
    /\ flc_posix \in SmallLockTables
    /\ i_size = [n \in Nodes |-> IF n = "n2" THEN MaxCount ELSE 0]
    /\ tree = Tree1
    /\ tree0 = tree
    /\ inode = PlainInodes(tree)

NextIOConc ==
    \/ \E r \in LockRequests : r.start = r.end /\ smb_vfs_lock(r.h, r.type, r.start, r.end)
    \/ \E w \in Workers, fid \in ConcFids, pos \in {0, MaxPos}, sync \in BOOLEAN :
          smb_vfs_write_entry(w, fid, pos, 1, sync)
    \/ \E w \in Workers : smb_vfs_write_probe(w)
    \/ \E w \in Workers : smb_vfs_write_lock(w)
    \/ \E w \in Workers : smb_vfs_write_break(w)
    \/ \E w \in Workers : smb_vfs_write_unlock(w)
    \/ \E w \in Workers : smb_vfs_write_backend(w)
    \/ \E w \in Workers : smb_vfs_write_fsync(w)
    \/ \E w \in Workers, fid \in ConcFids, size \in {0, LastByte} :
          smb_vfs_truncate_entry(w, fid, size)
    \/ \E w \in Workers : smb_vfs_truncate_lock(w)
    \/ \E w \in Workers : smb_vfs_truncate_break(w)
    \/ \E w \in Workers : smb_vfs_truncate_unlock(w)
    \/ \E w \in Workers : smb_vfs_truncate_probe(w)
    \/ \E w \in Workers : smb_vfs_truncate_backend(w)

SpecIOConc == InitIOConc /\ [][NextIOConc]_vars

(***************************************************************************)
(* SpecFs: one worker makes one call on the name space (rename) on one of  *)
(* the initial trees.  SpecRename: two workers rename concurrently.        *)
(* SpecRenamePair: two workers rename A to B and B to A by path, and a     *)
(* worker inside a call keeps being scheduled (a kworker is not starved).  *)
(***************************************************************************)
RenamePaths ==
    { <<"/", "a">>, <<"/", "b">>,
      <<"/", "a", "/", "a">>, <<"/", "a", "/", "b">>,
      <<"/", "b", "/", "a">>, <<"/", "b", "/", "b">>,
      <<"/", "a", "/", "b", "/", "a">>, <<"/", "a", "/", "b", "/", "b">>,
      <<"/", "b", "/", "b", "/", "a">>,
      <<"/", "a", "/">>, <<"/", "a", "/", "b", "/">>,
      <<"a">>, <<"/", "a", "/", ".">> }

InitFs ==
    /\ InitLocals
    /\ xattr_value = NoXattr
    /\ oplocks_enable = TRUE
    /\ flc_posix = {}
    /\ i_size = [n \in Nodes |-> 0]
    /\ tree \in InitTrees
    /\ tree0 = tree
    /\ inode = PlainInodes(tree)

RenameCalls(w, paths) ==
    \/ \E old \in paths, new \in paths : smb_vfs_rename_entry(w, old, new, 0)
    \/ \E fid \in FidSet, new \in paths : smb_vfs_rename_entry(w, NoName, new, fid)

RenameSteps(w) ==
    \/ smb_vfs_rename_new(w)
    \/ lock_rename_begin(w)
    \/ lock_rename_first(w)
    \/ lock_rename_second(w)
    \/ smb_vfs_rename_body(w)
    \/ smb_vfs_rename_exit(w)

ConcPaths ==
    { <<"/", "b">>, <<"/", "a", "/", "a">>, <<"/", "a", "/", "b">>,
      <<"/", "b", "/", "a">>, <<"/", "a", "/", "b", "/", "a">> }

NextFs ==
    \/ \E w \in SeqWorkers : RenameCalls(w, RenamePaths)
    \/ \E w \in SeqWorkers : RenameSteps(w)

SpecFs == InitFs /\ [][NextFs]_vars

(* path names without a separator or with nothing after the last one *)
BadLeafPaths == { <<"/", "a", "/">>, <<"b">> }

NextRename ==
    \/ \E w \in Workers : RenameCalls(w, ConcPaths \cup BadLeafPaths)
    \/ \E w \in Workers : RenameSteps(w)

SpecRename == InitFs /\ [][NextRename]_vars

(* the two workers rename A to B and B to A, by path *)
PairPaths == ConcPaths \cup { <<"/", "a">> }

PairCalls(w) ==
    \E old \in PairPaths, new \in PairPaths :
        /\ old # new
        /\ \A v \in Workers \ {w} :
              call[v].op = "rename" => (call[v].oldname = new /\ call[v].newname = old)
        /\ smb_vfs_rename_entry(w, old, new, 0)

NextRenamePair ==
    \/ \E w \in Workers : PairCalls(w)
    \/ \E w \in Workers : RenameSteps(w)

SpecRenamePair ==
    /\ InitFs
    /\ [][NextRenamePair]_vars
    /\ \A w \in Workers : WF_vars(RenameSteps(w))

(***************************************************************************)
(* SpecAttr: one worker makes one smb_vfs_setattr call, by name or by fid, *)
(* on a tree holding a directory, a file and a symbolic link; the file may *)
(* carry byte-range locks, be set up for mandatory locking and be mapped   *)
(* for execution (negative write count).                                   *)
(***************************************************************************)
FileModes ==
    { {"S_IFREG", "S_IRUSR", "S_ISGID"},
      {"S_IFREG", "S_IRUSR", "S_ISUID", "S_ISGID", "S_IXGRP"} }

WriteCounts == {0 - 1, 0, 1}

InitAttr ==
    /\ InitLocals
    /\ xattr_value = NoXattr
    /\ oplocks_enable = TRUE
    /\ flc_posix \in SmallLockTables
    /\ i_size = [n \in Nodes |-> IF n = "n2" THEN MaxCount ELSE 0]
    /\ tree = Tree4
    /\ tree0 = tree
    /\ inode \in {[PlainInodes(Tree4) EXCEPT !["n2"] = MkInode(m, wc, mand)] :
                     m \in FileModes, wc \in WriteCounts, mand \in BOOLEAN}

AttrNames == { NoName, <<"/", "a">>, <<"/", "b">>, <<"/", "c">>, <<"/", "x">> }

RequestBits == {"ATTR_MODE", "ATTR_UID", "ATTR_GID", "ATTR_SIZE", "ATTR_MTIME"}

ModeRequests ==
    { {"S_IRUSR"},
      {"S_ISUID", "S_ISGID", "S_IXGRP"},
      {"S_IFDIR", "S_ISUID", "S_ISGID", "S_IRUSR"} }

AttrRequests ==
    [ia_valid : SUBSET RequestBits, ia_mode : ModeRequests, ia_uid : {0, 1},
     ia_gid : {0, 1}, ia_size : {0, MaxCount, LastByte}, ia_mtime : {1}]

SetattrCalls(w) ==
    /\ pc[w] = "idle"
    /\ \E name \in AttrNames, fid \in FidSet \cup {0}, attrs \in AttrRequests :
          /\ (name = NoName) <=> (fid # 0)
          /\ smb_vfs_setattr_entry(w, name, fid, attrs)

NextAttr ==
    \/ \E w \in SeqWorkers : SetattrCalls(w)
    \/ \E w \in SeqWorkers : smb_vfs_setattr_lock(w)
    \/ \E w \in SeqWorkers : smb_vfs_setattr_notify(w)

SpecAttr == InitAttr /\ [][NextAttr]_vars

(***************************************************************************)
(* SpecSanitize: smb_check_attrs applied once to a directory, a file or a  *)
(* symbolic link, for every permission part of the current mode and every  *)
(* requested mode, owner and group.                                        *)
(***************************************************************************)
InitSanitize ==
    /\ InitLocals
    /\ xattr_value = NoXattr
    /\ oplocks_enable = TRUE
    /\ flc_posix = {}
    /\ i_size = [n \in Nodes |-> 0]
    /\ tree = Tree4
    /\ tree0 = tree
    /\ inode \in {[n \in Nodes |-> MkInode(TypeBit(Tree4[n].kind) \cup m, 0, FALSE)] :
                     m \in SUBSET S_IALLUGO}

SanitizeRequests ==
    [ia_valid : SUBSET {"ATTR_MODE", "ATTR_UID", "ATTR_GID"},
     ia_mode : SUBSET (S_IALLUGO \cup {"S_IFDIR"}),
     ia_uid : {0, 1}, ia_gid : {0, 1}, ia_size : {0}, ia_mtime : {0}]

SanitizeCalls(w) ==
    /\ pc[w] = "idle"
    /\ \E n \in {"n1", "n2", "n3"}, attrs \in SanitizeRequests :
          smb_check_attrs_call(w, n, attrs)

NextSanitize == \E w \in SeqWorkers : SanitizeCalls(w)

SpecSanitize == InitSanitize /\ [][NextSanitize]_vars

(***************************************************************************)
(* SpecXattr: workers call smb_vfs_getxattr and smb_vfs_listxattr while    *)
(* the attribute is set, resized and removed by other requests.            *)
(***************************************************************************)
InitXattr ==
    /\ InitLocals
    /\ xattr_value \in XattrValues
    /\ oplocks_enable = TRUE
    /\ flc_posix = {}
    /\ i_size = [n \in Nodes |-> 0]
    /\ tree = Tree1
    /\ tree0 = tree
    /\ inode = PlainInodes(tree)

NextXattr ==
    \/ \E w \in Workers, buf_len \in 0 .. MaxXattr : smb_vfs_getxattr_query(w, buf_len)
    \/ \E w \in Workers : smb_vfs_getxattr_fetch(w)
    \/ \E w \in Workers, size \in ListSizes : smb_vfs_listxattr_alloc(w, size)
    \/ \E w \in Workers : smb_vfs_listxattr_list(w)
    \/ \E x \in XattrValues : vfs_setxattr(x)

SpecXattr == InitXattr /\ [][NextXattr]_vars

(***************************************************************************)
(* C1: a write whose range [pos, pos+count-1] shares a byte with a lock    *)
(* held by another owner when the lock gate is probed returns -EAGAIN      *)
(* straight from the probe: no backend write (nothing stored in *written,  *)
(* the file size untouched by this call), the lease-table mutex never      *)
(* taken, no oplock break, and no fsync even when sync was asked for.      *)
(***************************************************************************)
C1_WriteLockConflict ==
    \A w \in Workers :
        (IsOp(w, "write") /\ probeConflict[w]) =>
            /\ Returned(w)
            /\ ret[w] = 0 - EAGAIN
            /\ written[w] = << >>
            /\ ~Has(ev[w], "vfs_write")
            /\ ~Has(ev[w], "mutex_lock")
            /\ ~Has(ev[w], "breakII")
            /\ ~Has(ev[w], "fsync")
            /\ ofile_list_lock # w

C1_Witness ==
    \E w \in Workers :
        /\ IsOp(w, "write") /\ probeConflict[w] /\ Returned(w)
        /\ call[w].sync /\ call[w].count > 0 /\ oplocks_enable
        /\ ret[w] = 0 - EAGAIN

(***************************************************************************)
(* C2 as stated: every write that reaches the backend write has, in this   *)
(* order, a lock probe, a completed oplock break (mutex released), and     *)
(* then the backend write.                                                 *)
(***************************************************************************)
C2_Original ==
    \A w \in Workers :
        (IsOp(w, "write") /\ Has(ev[w], "vfs_write")) =>
            /\ 0 < Idx(ev[w], "probe")
            /\ Idx(ev[w], "probe") < Idx(ev[w], "breakII")
            /\ Idx(ev[w], "breakII") < Idx(ev[w], "mutex_unlock")
            /\ Idx(ev[w], "mutex_unlock") < Idx(ev[w], "vfs_write")

(***************************************************************************)
(* C2 amended: every write that reaches the backend write made exactly one *)
(* lock probe, before the backend write; with oplocks_enable set it made   *)
(* exactly one oplock break, after the probe and completed (the mutex      *)
(* released) before the backend write; with oplocks_enable clear it made   *)
(* no oplock break at all.  Nothing of the probe or the break follows the  *)
(* backend write.                                                          *)
(***************************************************************************)
C2_WriteOrder ==
    \A w \in Workers :
        (IsOp(w, "write") /\ Has(ev[w], "vfs_write")) =>
            /\ Count(ev[w], "probe") = 1
            /\ Count(ev[w], "vfs_write") = 1
            /\ Idx(ev[w], "probe") < Idx(ev[w], "vfs_write")
            /\ oplocks_enable =>
                  /\ Count(ev[w], "breakII") = 1
                  /\ Idx(ev[w], "probe") < Idx(ev[w], "breakII")
                  /\ Idx(ev[w], "breakII") < Idx(ev[w], "mutex_unlock")
                  /\ Idx(ev[w], "mutex_unlock") < Idx(ev[w], "vfs_write")
            /\ ~oplocks_enable => Count(ev[w], "breakII") = 0

C2_Witness ==
    \E w \in Workers :
        /\ IsOp(w, "write") /\ Returned(w) /\ oplocks_enable
        /\ ev[w] = <<"fidtable", "probe", "mutex_lock", "breakII",
                     "mutex_unlock", "vfs_write", "fsync">>

(***************************************************************************)
(* C3 as stated: every write past the lock gate breaks level-II oplocks    *)
(* under the lease-table mutex before the backend write, whatever the      *)
(* configuration; a read never does and never takes the mutex.             *)
(***************************************************************************)
PastGate(w) == pc[w] \in {"w_write", "w_fsync"} \/ Has(ev[w], "vfs_write")

C3_Original ==
    \A w \in Workers :
        /\ (IsOp(w, "write") /\ PastGate(w)) =>
              /\ Has(ev[w], "mutex_lock")
              /\ Has(ev[w], "breakII")
              /\ Has(ev[w], "mutex_unlock")
        /\ IsOp(w, "read") => (~Has(ev[w], "breakII") /\ ~Has(ev[w], "mutex_lock"))

(***************************************************************************)
(* C3 amended: with oplocks_enable set, every write past the lock gate has *)
(* called smb_breakII_oplock between mutex_lock and mutex_unlock of the    *)
(* lease-table mutex, holding it during the call, before the backend       *)
(* write; with oplocks_enable clear a write neither takes the mutex nor    *)
(* calls the break.  A read never calls the break nor takes the mutex.     *)
(***************************************************************************)
C3_BreakWhenEnabled ==
    \A w \in Workers :
        /\ (IsOp(w, "write") /\ PastGate(w) /\ oplocks_enable) =>
              /\ 0 < Idx(ev[w], "mutex_lock")
              /\ Idx(ev[w], "mutex_lock") < Idx(ev[w], "breakII")
              /\ Idx(ev[w], "breakII") < Idx(ev[w], "mutex_unlock")
              /\ Has(ev[w], "vfs_write") =>
                    Idx(ev[w], "mutex_unlock") < Idx(ev[w], "vfs_write")
        /\ (IsOp(w, "write") /\ pc[w] = "w_break") => ofile_list_lock = w
        /\ (IsOp(w, "write") /\ ~oplocks_enable) =>
              (~Has(ev[w], "breakII") /\ ~Has(ev[w], "mutex_lock"))
        /\ IsOp(w, "read") =>
              /\ ~Has(ev[w], "breakII")
              /\ ~Has(ev[w], "mutex_lock")
              /\ ofile_list_lock # w

C3_Witness ==
    /\ oplocks_enable
    /\ \E w \in Workers :
          /\ IsOp(w, "write") /\ pc[w] = "w_write"
          /\ Has(ev[w], "breakII")
          /\ call[w].fid = 3

(***************************************************************************)
(* C4: under every interleaving of concurrent writes and truncates, a      *)
(* worker holds ofile_list_lock exactly from its mutex_lock to its         *)
(* mutex_unlock around smb_breakII_oplock: never in the backend write, the *)
(* backend truncate or the fsync, never once returned; and at most one     *)
(* worker is inside the break at a time.                                   *)
(***************************************************************************)
InBreak(w) == pc[w] \in {"w_break", "w_unlock", "t_break", "t_unlock"}

C4_LeaseLockScope ==
    /\ \A w \in Workers : (ofile_list_lock = w) <=> InBreak(w)
    /\ \A w \in Workers :
          pc[w] \in {"w_write", "w_fsync", "t_trunc", "t_probe", "done", "idle"}
              => ofile_list_lock # w
    /\ Cardinality({w \in Workers : pc[w] \in {"w_break", "t_break"}}) <= 1

C4_Witness ==
    /\ pc["w1"] = "w_break" /\ ofile_list_lock = "w1"
    /\ pc["w2"] = "t_mutex"

(***************************************************************************)
(* C8 as stated: a read on a handle open on a directory fails with a       *)
(* negative value for every count and offset, with no buffer allocated and *)
(* no backend read.                                                        *)
(***************************************************************************)
OnDirectory(w) ==
    /\ get_id_from_fidtable(call[w].fid) # NULL
    /\ S_ISDIR_node(FileDentry(get_id_from_fidtable(call[w].fid)))

C8_Original ==
    \A w \in Workers :
        (IsOp(w, "read") /\ OnDirectory(w) /\ Returned(w)) =>
            /\ ret[w] < 0
            /\ ~Has(ev[w], "vmalloc")
            /\ ~Has(ev[w], "vfs_read")

(***************************************************************************)
(* C8 amended: a read with count > 0 on a handle open on a directory       *)
(* returns -EISDIR for every offset; a read with count = 0 returns 0       *)
(* before the file id is even resolved.  In both cases no buffer is        *)
(* allocated, no lock probe is made and the backend read is not invoked.   *)
(***************************************************************************)
C8_ReadDirectory ==
    \A w \in Workers :
        (IsOp(w, "read") /\ OnDirectory(w)) =>
            /\ Returned(w)
            /\ call[w].count > 0 => ret[w] = 0 - EISDIR
            /\ call[w].count = 0 => (ret[w] = 0 /\ ev[w] = << >>)
            /\ ~Has(ev[w], "vmalloc")
            /\ ~Has(ev[w], "probe")
            /\ ~Has(ev[w], "vfs_read")
            /\ heap[w] = "none"
            /\ outbuf[w] = << >>

C8_Witness ==
    \E w \in Workers :
        /\ IsOp(w, "read") /\ OnDirectory(w) /\ Returned(w)
        /\ call[w].count = MaxCount /\ call[w].pos = MaxPos
        /\ ret[w] = 0 - EISDIR

(***************************************************************************)
(* C9: when smb_vfs_read has returned, its buffer was either stored in     *)
(* *buf or freed, never both and never neither: *buf is set exactly when   *)
(* the backend read ran and the return value is non-negative; on every     *)
(* negative return no buffer is left allocated and *buf is untouched.      *)
(***************************************************************************)
C9_ReadBuffer ==
    \A w \in Workers :
        (IsOp(w, "read") /\ Returned(w)) =>
            /\ (outbuf[w] # << >>) <=> (Has(ev[w], "vfs_read") /\ ret[w] >= 0)
            /\ ret[w] < 0 => (heap[w] \in {"none", "freed"} /\ outbuf[w] = << >>)
            /\ ~(heap[w] = "freed" /\ outbuf[w] # << >>)
            /\ heap[w] = "live" => outbuf[w] # << >>
            /\ Has(ev[w], "vmalloc") => heap[w] # "none"
            /\ ~Has(ev[w], "vmalloc") => heap[w] = "none"

C9_Witness ==
    \E w \in Workers :
        /\ IsOp(w, "read") /\ Returned(w)
        /\ Has(ev[w], "vfs_read") /\ ret[w] < 0 /\ heap[w] = "freed"

(***************************************************************************)
(* Renames: what one call by path does when nothing else runs, and the     *)
(* visible name space of a tree.                                           *)
(***************************************************************************)
RenameAlone(t, old, new) ==
    LET oldname == LastComponent(old)
        kpo == kern_path_parent(t, old)
        newname == LastComponent(new)
        kpn == kern_path_parent(t, new)
        trap == IF kpo.dentry = kpn.dentry THEN NULL
                ELSE lock_rename_plan(t, kpo.dentry, kpn.dentry).trap
        loc == [NoRn EXCEPT !.dold_p = kpo.dentry, !.dnew_p = kpn.dentry,
                            !.oldname = oldname, !.newname = newname, !.trap = trap]
    IN  IF oldname = NoName \/ kpo.err # 0 THEN [ret |-> 0 - ENOENT, tree |-> t]
        ELSE IF newname = NoName THEN [ret |-> 0 - ENOMEM, tree |-> t]
        ELSE IF kpn.err # 0 THEN [ret |-> kpn.err, tree |-> t]
        ELSE [ret |-> rename_body(t, TRUE, NULL, loc).err,
              tree |-> rename_body(t, TRUE, NULL, loc).tree]

Visible(t) ==
    [n \in Nodes |-> IF t[n].hashed THEN <<t[n].parent, t[n].name, t[n].kind>> ELSE << >>]

ByPath(w) == IsOp(w, "rename") /\ call[w].oldname # NoName

(* the two workers rename A to B and B to A *)
ABPair ==
    /\ ByPath("w1") /\ ByPath("w2")
    /\ call["w1"].oldname = call["w2"].newname
    /\ call["w1"].newname = call["w2"].oldname
    /\ call["w1"].oldname # call["w1"].newname

AllReturned == \A w \in Workers : Returned(w)

InOrder(x, y) ==
    LET r1 == RenameAlone(tree0, call[x].oldname, call[x].newname)
        r2 == RenameAlone(r1.tree, call[y].oldname, call[y].newname)
    IN  /\ Visible(tree) = Visible(r2.tree)
        /\ ret[x] = r1.ret
        /\ ret[y] = r2.ret

(***************************************************************************)
(* C5: when two workers concurrently rename A to B and B to A by path      *)
(* (same or different parent directories), both calls return, and once     *)
(* both have returned the name space and the two return values are those   *)
(* of running the two calls one after the other, in one of the two orders. *)
(***************************************************************************)
C5_RenamePair ==
    /\ [](ABPair /\ AllReturned => (InOrder("w1", "w2") \/ InOrder("w2", "w1")))
    /\ (ABPair ~> AllReturned)

C5_Witness ==
    /\ ABPair
    /\ rn["w1"].dold_p # rn["w1"].dnew_p
    /\ pc["w1"] = "rn_out" /\ Has(ev["w1"], "vfs_rename") /\ ret["w1"] = 0
    /\ pc["w2"] = "rn_lock"

(***************************************************************************)
(* The directory locks a worker holds, and the release steps of the exit   *)
(* path.                                                                   *)
(***************************************************************************)
HeldBy(w) == {n \in Nodes : i_mutex[n] = w}

InLockRename(w) == pc[w] \in {"rn_lock1", "rn_lock2"}

ReleaseSteps == {"dput_dnew", "dput_dold", "unlock_rename", "path_put_new", "path_put_old"}

(***************************************************************************)
(* C6: at every program point of smb_vfs_rename (the inside of the         *)
(* kernel's lock_rename apart) the worker holds the i_mutex of both parent *)
(* directories or of none, and holds the rename mutex only together with   *)
(* them; whatever the exit (bad name, failed path lookup, failed or        *)
(* negative source, source or destination equal to the trap, result of     *)
(* vfs_rename), once the call has returned no directory lock is held by    *)
(* the worker and each of the four references - source parent path,        *)
(* destination parent path, source dentry, destination dentry - was put    *)
(* exactly as often as it was taken, at most once.                         *)
(***************************************************************************)
C6_RenameLocksAndRefs ==
    \A w \in Workers :
        IsOp(w, "rename") =>
            /\ ~InLockRename(w) =>
                  /\ HeldBy(w) \in {{}, {rn[w].dold_p, rn[w].dnew_p}}
                  /\ s_vfs_rename_mutex = w =>
                        (HeldBy(w) # {} /\ rn[w].dold_p # rn[w].dnew_p)
                  /\ rn[w].locked <=> HeldBy(w) # {}
            /\ pc[w] \in {"idle", "rn_new", "rn_lock", "done"} => HeldBy(w) = {}
            /\ pc[w] \in {"rn_body", "rn_out"} => HeldBy(w) = {rn[w].dold_p, rn[w].dnew_p}
            /\ \A k \in RefKinds : rn[w].put[k] <= rn[w].got[k] /\ rn[w].got[k] <= 1
            /\ \A e \in ReleaseSteps : Count(ev[w], e) <= 1
            /\ Returned(w) =>
                  /\ s_vfs_rename_mutex # w
                  /\ rn[w].put = rn[w].got
                  /\ Has(ev[w], "lock_rename") <=> Has(ev[w], "unlock_rename")

C6_Witness ==
    \E w \in Workers :
        /\ IsOp(w, "rename") /\ Returned(w)
        /\ rn[w].label = "out3" /\ ret[w] = 0 - EINVAL
        /\ rn[w].dold_p # rn[w].dnew_p
        /\ rn[w].got = [k \in RefKinds |-> IF k = "dnew" THEN 0 ELSE 1]

(***************************************************************************)
(* A rename of a directory into itself: the source names a directory of    *)
(* the tree the call started on, and the parent directory of the           *)
(* destination is that directory or lies below it.                         *)
(***************************************************************************)
RECURSIVE Up(_, _, _)
Up(t, n, k) == IF k = 0 THEN n ELSE Up(t, t[n].parent, k - 1)

AtOrBelow(t, d, n) ==
    \E k \in 0 .. Cardinality(Nodes) :
        /\ Up(t, n, k) = d
        /\ \A j \in 0 .. (k - 1) : ~IS_ROOT(Up(t, n, j))

RenameSource(w) ==
    IF call[w].oldname # NoName
    THEN kern_path(tree0, call[w].oldname).dentry
    ELSE IF get_id_from_fidtable(call[w].fid) = NULL THEN NULL
    ELSE FileDentry(get_id_from_fidtable(call[w].fid))

IntoOwnSubtree(w) ==
    /\ IsOp(w, "rename")
    /\ RenameSource(w) \in Nodes
    /\ tree0[RenameSource(w)].kind = "dir"
    /\ tree0[RenameSource(w)].hashed
    /\ kern_path_parent(tree0, call[w].newname).err = 0
    /\ AtOrBelow(tree0, RenameSource(w), kern_path_parent(tree0, call[w].newname).dentry)

DotNames == { <<".">>, <<".", ".">> }

LeavesUsable(w) ==
    /\ LastComponent(call[w].newname) # NoName
    /\ call[w].oldname # NoName =>
          LastComponent(call[w].oldname) \notin ({NoName} \cup DotNames)

RejectedAsInvalid(w) ==
    /\ ~Has(ev[w], "vfs_rename")
    /\ tree = tree0
    /\ pc[w] # "oops"
    /\ Returned(w) => ret[w] = 0 - EINVAL

(***************************************************************************)
(* C7 as stated: every rename, by path or by fid, of a directory to a      *)
(* destination inside that directory or below it returns -EINVAL, never    *)
(* calls vfs_rename and leaves the tree as it was.                         *)
(***************************************************************************)
C7_Original ==
    \A w \in Workers : IntoOwnSubtree(w) => RejectedAsInvalid(w)

(***************************************************************************)
(* C7: a rename, by path or by fid, of a directory to a destination inside *)
(* that directory or below it, whose destination name has a last component *)
(* and whose source name (when given) has a last component other than "."  *)
(* and "..", returns -EINVAL, never calls vfs_rename and leaves the tree   *)
(* as it was; with a name whose last component cannot be used the call     *)
(* fails earlier with another error, the tree again unchanged.             *)
(***************************************************************************)
C7_RenameIntoOwnSubtree ==
    \A w \in Workers :
        IntoOwnSubtree(w) =>
            /\ LeavesUsable(w) => RejectedAsInvalid(w)
            /\ ~LeavesUsable(w) =>
                  /\ ~Has(ev[w], "vfs_rename") /\ tree = tree0
                  /\ Returned(w) => ret[w] \in {0 - ENOENT, 0 - ENOMEM, 0 - EACCES}

C7_Witness ==
    \E w \in Workers :
        /\ IntoOwnSubtree(w) /\ LeavesUsable(w) /\ Returned(w)
        /\ call[w].oldname = NoName
        /\ rn[w].dnew_p # RenameSource(w)
        /\ ret[w] = 0 - EINVAL

(***************************************************************************)
(* A size change asked for together with other fields, and the two ways    *)
(* its validation fails, read off the state the call started on: the file  *)
(* is mapped for execution, or it is under mandatory locking and a lock    *)
(* covers a byte between its size and the new size.                        *)
(***************************************************************************)
SizeWithOthers(w) ==
    /\ IsOp(w, "setattr")
    /\ sa[w].dentry # NULL
    /\ "ATTR_SIZE" \in call[w].attrs.ia_valid
    /\ call[w].attrs.ia_valid \ {"ATTR_SIZE"} # {}

WriteDenied(w) == sa[w].before.i_writecount < 0

TruncateForbidden(w) ==
    LET new == call[w].attrs.ia_size
        old == sa[w].size_before
    IN  /\ ~WriteDenied(w)
        /\ sa[w].before.s_mandlock
        /\ "S_ISGID" \in sa[w].before.i_mode /\ "S_IXGRP" \notin sa[w].before.i_mode
        /\ \E l \in flc_posix :
              /\ l.inode = sa[w].dentry
              /\ (l.start .. l.end) \cap (Min(old, new) .. (Max(old, new) - 1)) # {}

ValidationFailed(w) ==
    \/ WriteDenied(w)
    \/ TruncateForbidden(w)
    \/ Has(ev[w], "get_write_access_failed")
    \/ Has(ev[w], "locks_verify_truncate_failed")

(***************************************************************************)
(* C10: a smb_vfs_setattr call whose change set holds ATTR_SIZE and other  *)
(* fields, and for which get_write_access() fails (-ETXTBSY) or            *)
(* locks_verify_truncate() fails (-EAGAIN), returns that error without     *)
(* taking i_mutex, without calling notify_change() and without             *)
(* sync_inode_metadata(); mode, owner, group, times and size of the inode  *)
(* are the ones it had before the call, and so is its i_writecount.        *)
(***************************************************************************)
C10_SetattrSizeAborts ==
    \A w \in Workers :
        SizeWithOthers(w) /\ ValidationFailed(w) =>
            /\ Returned(w)
            /\ ret[w] = IF WriteDenied(w) THEN 0 - ETXTBSY ELSE 0 - EAGAIN
            /\ Has(ev[w], "get_write_access_failed") <=> WriteDenied(w)
            /\ ~Has(ev[w], "mutex_lock")
            /\ ~Has(ev[w], "notify_change")
            /\ ~Has(ev[w], "sync_inode_metadata")
            /\ inode[sa[w].dentry] = sa[w].before
            /\ i_size[sa[w].dentry] = sa[w].size_before
            /\ (call[w].name # NoName) <=> Has(ev[w], "path_put")

C10_Witness ==
    \E w \in Workers :
        /\ SizeWithOthers(w) /\ TruncateForbidden(w) /\ Returned(w)
        /\ {"ATTR_MODE", "ATTR_UID", "ATTR_MTIME"} \subseteq call[w].attrs.ia_valid
        /\ sa[w].before.i_writecount = 1
        /\ Has(ev[w], "put_write_access")
        /\ ret[w] = 0 - EAGAIN

(***************************************************************************)
(* A change of owner or group of a non-directory whose current mode has    *)
(* group-execute, and what it means for a set-ID bit to be cleared by the  *)
(* sanitized change set: absent from the new mode when a mode is set,      *)
(* marked for removal by the backend otherwise.                            *)
(***************************************************************************)
Sanitized(w) == IsOp(w, "check_attrs") /\ Returned(w)

OwnerChanges(w) ==
    \/ ("ATTR_UID" \in call[w].attrs.ia_valid /\ call[w].attrs.ia_uid # sa[w].before.i_uid)
    \/ ("ATTR_GID" \in call[w].attrs.ia_valid /\ call[w].attrs.ia_gid # sa[w].before.i_gid)

ChownOfGroupExec(w) ==
    /\ Sanitized(w)
    /\ "S_IFDIR" \notin sa[w].before.i_mode
    /\ "S_IXGRP" \in sa[w].before.i_mode
    /\ OwnerChanges(w)

SetsMode(w) == "ATTR_MODE" \in call[w].attrs.ia_valid

ClearsBit(w, bit, kill) ==
    IF SetsMode(w) THEN bit \notin sa[w].attrs.ia_mode
                   ELSE kill \in sa[w].attrs.ia_valid

(***************************************************************************)
(* C11 as stated: every owner or group change of a non-directory whose     *)
(* current mode has group-execute leaves a change set that clears both     *)
(* set-user-ID and set-group-ID, whatever fields and mode were requested.  *)
(***************************************************************************)
C11_Original ==
    \A w \in Workers :
        ChownOfGroupExec(w) =>
            /\ ClearsBit(w, "S_ISUID", "ATTR_KILL_SUID")
            /\ ClearsBit(w, "S_ISGID", "ATTR_KILL_SGID")

(***************************************************************************)
(* C11: every owner or group change of a non-directory whose current mode  *)
(* has group-execute leaves a change set that clears set-user-ID; it       *)
(* clears set-group-ID when no mode is requested (both bits are marked for *)
(* removal) or when the requested mode grants group-execute; a requested   *)
(* mode with set-group-ID and without group-execute keeps set-group-ID.    *)
(***************************************************************************)
C11_ChownClearsSetId ==
    \A w \in Workers :
        ChownOfGroupExec(w) =>
            /\ ClearsBit(w, "S_ISUID", "ATTR_KILL_SUID")
            /\ ~SetsMode(w) => ClearsBit(w, "S_ISGID", "ATTR_KILL_SGID")
            /\ SetsMode(w) =>
                  (("S_ISGID" \in sa[w].attrs.ia_mode) <=>
                      ("S_ISGID" \in call[w].attrs.ia_mode /\
                       "S_IXGRP" \notin call[w].attrs.ia_mode))

C11_Witness ==
    \E w \in Workers :
        /\ ChownOfGroupExec(w) /\ SetsMode(w)
        /\ {"S_ISUID", "S_ISGID", "S_IXGRP"} \subseteq call[w].attrs.ia_mode
        /\ "S_IFLNK" \in sa[w].before.i_mode
        /\ sa[w].attrs.ia_mode \cap {"S_ISUID", "S_ISGID"} = {}

(***************************************************************************)
(* smb_vfs_setattr with no field marked valid, and the steps such a call   *)
(* must not take.                                                          *)
(***************************************************************************)
EmptySetattr(w) == IsOp(w, "setattr") /\ call[w].attrs.ia_valid = {}

TargetResolves(w) ==
    IF call[w].name # NoName THEN kern_path(tree0, call[w].name).err = 0
                             ELSE get_id_from_fidtable(call[w].fid) # NULL

NoSetattrEffect(w) ==
    /\ ~Has(ev[w], "notify_change")
    /\ ~Has(ev[w], "mutex_lock")
    /\ ~Has(ev[w], "get_write_access") /\ ~Has(ev[w], "get_write_access_failed")
    /\ ~Has(ev[w], "put_write_access")
    /\ ~Has(ev[w], "sync_inode_metadata")
    /\ \A n \in Nodes : i_mutex[n] # w
    /\ sa[w].dentry # NULL => inode[sa[w].dentry] = sa[w].before

TruncateByHandle(w) == IsOp(w, "truncate") /\ call[w].fid # 0 /\ fp[w] # NULL

Before(s, a, b) == Has(s, a) /\ Has(s, b) /\ Idx(s, a) < Idx(s, b)

(***************************************************************************)
(* C13: every truncate by handle probes the byte range between the old and *)
(* the new size against the locks of other owners before vfs_truncate is   *)
(* called, with leases enabled or disabled, and a call whose probe met     *)
(* such a lock never calls vfs_truncate.                                   *)
(***************************************************************************)
C13_TruncateChecksLocks ==
    \A w \in Workers :
        TruncateByHandle(w) =>
            /\ Has(ev[w], "vfs_truncate") => Before(ev[w], "probe", "vfs_truncate")
            /\ probeConflict[w] => ~Has(ev[w], "vfs_truncate")

(***************************************************************************)
(* C14: a truncate by handle to size N of a file of size S, with leases    *)
(* disabled, probes the lock gate once with write intent on exactly        *)
(* [min(S,N), max(S,N)-1] before vfs_truncate; a probe that reports a      *)
(* conflict makes the call return -EAGAIN without vfs_truncate.  With      *)
(* leases enabled smb_breakII_oplock runs with ofile_list_lock held, and   *)
(* the lock is released, before vfs_truncate.                              *)
(***************************************************************************)
C14_TruncateGate ==
    \A w \in Workers :
        TruncateByHandle(w) =>
            LET S == i_size[FileDentry(fp[w])]
                N == call[w].size
            IN  /\ (~oplocks_enable /\ pc[w] = "t_trunc") =>
                      /\ ev[w] = <<"fidtable", "probe">>
                      /\ Len(probed[w]) = 1
                      /\ probed[w][1].start = Min(S, N)
                      /\ probed[w][1].end = Max(S, N) - 1
                      /\ probed[w][1].type = F_WRLCK
                      /\ probed[w][1].err # 0 - EAGAIN
                /\ (~oplocks_enable /\ Has(ev[w], "vfs_truncate")) =>
                      /\ Before(ev[w], "probe", "vfs_truncate")
                      /\ ~Has(ev[w], "breakII")
                /\ (~oplocks_enable /\ Returned(w) /\ ~Has(ev[w], "vfs_truncate")) =>
                      /\ Len(probed[w]) = 1
                      /\ probed[w][1].err = 0 - EAGAIN
                      /\ ret[w] = 0 - EAGAIN
                /\ (oplocks_enable /\ pc[w] \in {"t_break", "t_unlock"}) =>
                      ofile_list_lock = w
                /\ (oplocks_enable /\ Has(ev[w], "vfs_truncate")) =>
                      /\ ev[w] = <<"fidtable", "mutex_lock", "breakII", "mutex_unlock",
                                   "vfs_truncate">>
                      /\ probed[w] = << >>

C14_Witness ==
    \E w \in Workers :
        /\ TruncateByHandle(w) /\ Returned(w) /\ ~oplocks_enable
        /\ call[w].size = 0
        /\ i_size[FileDentry(fp[w])] = MaxCount
        /\ probed[w] = <<[start |-> 0, end |-> MaxCount - 1, type |-> F_WRLCK,
                          err |-> 0 - EAGAIN]>>
        /\ ret[w] = 0 - EAGAIN
        /\ ev[w] = <<"fidtable", "probe">>

(***************************************************************************)
(* smb_vfs_truncate given a path name.                                     *)
(***************************************************************************)
TruncateByName(w) == IsOp(w, "truncate") /\ call[w].fid = 0

NoLockOrLeaseStep(w) ==
    /\ ~Has(ev[w], "fidtable")
    /\ ~Has(ev[w], "probe")
    /\ ~Has(ev[w], "mutex_lock")
    /\ ~Has(ev[w], "breakII")
    /\ ~Has(ev[w], "mutex_unlock")
    /\ probed[w] = << >>
    /\ fp[w] = NULL
    /\ ofile_list_lock # w

(***************************************************************************)
(* C15: a truncate given a path name calls vfs_truncate directly on the    *)
(* path it resolved: it does not consult the handle table, makes no lock   *)
(* gate probe, does not take ofile_list_lock and does not call             *)
(* smb_breakII_oplock, with leases enabled or disabled; the path is        *)
(* released once after vfs_truncate, whether vfs_truncate succeeded or     *)
(* failed, and the call returns what vfs_truncate returned.                *)
(***************************************************************************)
C15_TruncateByName ==
    \A w \in Workers :
        (TruncateByName(w) /\ Returned(w)) =>
            /\ NoLockOrLeaseStep(w)
            /\ IF kern_path(tree0, call[w].name).err = 0
               THEN /\ ev[w] = <<"kern_path", "vfs_truncate", "path_put">>
                    /\ ret[w] \in VfsTruncateOutcomes(kern_path(tree0, call[w].name).dentry)
               ELSE /\ ev[w] = <<"kern_path">>
                    /\ ret[w] = kern_path(tree0, call[w].name).err

C15_Witness ==
    \E w \in Workers :
        /\ TruncateByName(w) /\ Returned(w) /\ oplocks_enable
        /\ call[w].name = <<"/", "b">>
        /\ flc_posix # {}
        /\ ret[w] = 0 - EACCES
        /\ ev[w] = <<"kern_path", "vfs_truncate", "path_put">>

(***************************************************************************)
(* smb_vfs_getxattr: what the caller's buffer held before the call.        *)
(***************************************************************************)
GetXattr(w) == IsOp(w, "getxattr")

UntouchedBuffer(w) == gx[w].buf = [i \in 1 .. call[w].buf_len |-> 0]

(***************************************************************************)
(* C16: a getxattr call that finds the value longer than buf_len returns   *)
(* -ENOMEM with the caller's buffer untouched and without a fetch; and in  *)
(* every call, also when the value changes between the length query and    *)
(* the fetch, the fetch asks for at most buf_len bytes and the buffer      *)
(* keeps its length.                                                       *)
(***************************************************************************)
C16_GetxattrBuffer ==
    \A w \in Workers :
        GetXattr(w) =>
            /\ gx[w].xattr_len > call[w].buf_len =>
                  /\ Returned(w)
                  /\ ret[w] = 0 - ENOMEM
                  /\ UntouchedBuffer(w)
                  /\ gx[w].asked = << >>
            /\ \A i \in 1 .. Len(gx[w].asked) : gx[w].asked[i] <= call[w].buf_len
            /\ Len(gx[w].buf) = call[w].buf_len
            /\ (Returned(w) /\ ret[w] < 0) => UntouchedBuffer(w)
            /\ (Returned(w) /\ ret[w] > 0) => ret[w] <= call[w].buf_len

C16_Witness ==
    \E w \in Workers :
        /\ GetXattr(w) /\ Returned(w)
        /\ call[w].buf_len = 1
        /\ gx[w].xattr_len = 2
        /\ ret[w] = 0 - ENOMEM
        /\ UntouchedBuffer(w)
        /\ \E v \in Workers : GetXattr(v) /\ Returned(v) /\ ret[v] = 0 - ERANGE

(***************************************************************************)
(* Writes and the lock table.                                              *)
(***************************************************************************)
WriteMetLock(w) == IsOp(w, "write") /\ Returned(w) /\ ret[w] = 0 - EAGAIN

DisjointWriters(w, v) ==
    /\ w # v
    /\ IsOp(w, "write") /\ IsOp(v, "write")
    /\ fp[w] # NULL /\ fp[v] # NULL /\ fp[w] # fp[v]
    /\ FileDentry(fp[w]) = FileDentry(fp[v])
    /\ (call[w].pos .. (call[w].pos + call[w].count - 1)) \cap
       (call[v].pos .. (call[v].pos + call[v].count - 1)) = {}

NoLockSet == flc_posix = {} /\ nlockops = 0

(***************************************************************************)
(* C17: concurrent writes on different handles of one file never make each *)
(* other return -EAGAIN: only smb_vfs_lock steps change the lock table (a  *)
(* probe records nothing), a write returns -EAGAIN only when the table     *)
(* held, at its probe, a lock of another handle on a byte of its range,    *)
(* and while no lock was set no write returns -EAGAIN.                     *)
(***************************************************************************)
C17_ProbeSetsNoLock ==
    /\ [][nlockops' = nlockops => flc_posix' = flc_posix]_vars
    /\ [](\A w \in Workers : WriteMetLock(w) => probeConflict[w])
    /\ [](NoLockSet => \A w \in Workers : ~WriteMetLock(w))

C17_Witness ==
    \E w, v \in Workers :
        /\ DisjointWriters(w, v)
        /\ Returned(w) /\ Returned(v)
        /\ ret[w] = 0 /\ ret[v] = 0
        /\ written[w] = <<1>> /\ written[v] = <<1>>
        /\ Len(probed[w]) = 1 /\ Len(probed[v]) = 1
        /\ nlockops = 0
        /\ flc_posix # {}

(***************************************************************************)
(* smb_vfs_write: the backend write and the flush.                         *)
(***************************************************************************)
WriteCall(w) == IsOp(w, "write")

WriteFailed(w) ==
    /\ Returned(w) /\ Has(ev[w], "vfs_write") /\ ~Has(ev[w], "fsync") /\ ret[w] < 0

FlushFailed(w) == Returned(w) /\ Has(ev[w], "fsync") /\ ret[w] < 0

(***************************************************************************)
(* C18: smb_vfs_write calls vfs_fsync_range exactly when sync was          *)
(* requested and vfs_write did not fail, once, after vfs_write, on         *)
(* [offset, offset + *written]; after a failed flush *written holds the    *)
(* count vfs_write returned, after a failed vfs_write *written was never   *)
(* stored.                                                                 *)
(***************************************************************************)
C18_FlushAfterWrite ==
    \A w \in Workers :
        WriteCall(w) =>
            /\ Has(ev[w], "fsync") =>
                  /\ call[w].sync
                  /\ Before(ev[w], "vfs_write", "fsync")
                  /\ Count(ev[w], "fsync") = 1
                  /\ Len(written[w]) = 1 /\ written[w][1] >= 0
                  /\ flushed[w] = <<[start |-> call[w].pos,
                                     end |-> call[w].pos + written[w][1]]>>
            /\ ~Has(ev[w], "fsync") => flushed[w] = << >>
            /\ (Returned(w) /\ call[w].sync /\ written[w] # << >>) => Has(ev[w], "fsync")
            /\ FlushFailed(w) => Len(written[w]) = 1
            /\ WriteFailed(w) => written[w] = << >>

C18_Witness ==
    \E w \in Workers :
        /\ WriteCall(w) /\ FlushFailed(w)
        /\ call[w].count = MaxCount
        /\ written[w] = <<1>>
        /\ ret[w] = 0 - EIO
        /\ flushed[w] = <<[start |-> call[w].pos, end |-> call[w].pos + 1]>>

(***************************************************************************)
(* smb_vfs_rename given a path whose last component cannot be extracted:   *)
(* the source path of a call by name, or the destination path of a call    *)
(* that got as far as looking at it.                                       *)
(***************************************************************************)
Errnos == {ENOENT, EIO, EBADF, EAGAIN, ENOMEM, EACCES, ENOTDIR, EISDIR, EINVAL,
           ETXTBSY, ENOSPC, ERANGE, ENOTEMPTY, ENODATA}

BadSourceLeaf(w) ==
    /\ IsOp(w, "rename")
    /\ call[w].oldname # NoName
    /\ LastComponent(call[w].oldname) = NoName

BadDestLeaf(w) ==
    /\ IsOp(w, "rename")
    /\ LastComponent(call[w].newname) = NoName
    /\ IF call[w].oldname # NoName THEN rn[w].got["oldpath_p"] = 1 ELSE fp[w] # NULL

RejectedForLeaf(w) == Returned(w) /\ (BadSourceLeaf(w) \/ BadDestLeaf(w))

(***************************************************************************)
(* C19: every rename given a source or a destination path whose last       *)
(* component cannot be extracted returns one and the same error, which is  *)
(* not the not-found error -ENOENT, whether the bad path is the source or  *)
(* the destination; it takes no directory lock and has put every path      *)
(* reference it took.                                                      *)
(***************************************************************************)
C19_BadLeafRejected ==
    /\ \E e \in Errnos \ {ENOENT} :
          \A w \in Workers : RejectedForLeaf(w) => ret[w] = 0 - e
    /\ \A w \in Workers :
          RejectedForLeaf(w) =>
              /\ ~Has(ev[w], "lock_rename")
              /\ HeldBy(w) = {}
              /\ s_vfs_rename_mutex # w
              /\ rn[w].put = rn[w].got

(***************************************************************************)
(* smb_vfs_rename once both parents are locked: the checks in the order    *)
(* the claim gives them, and the error of the first one that fails.        *)
(***************************************************************************)
RenameLocked(w) == IsOp(w, "rename") /\ pc[w] \in {"rn_out", "done"} /\ Has(ev[w], "lock_rename")

SourceLookup(w) ==
    IF call[w].oldname # NoName
    THEN lookup_one_len(tree0, rn[w].oldname, rn[w].dold_p)
    ELSE [err |-> 0, dentry |-> FileDentry(fp[w])]

DestLookup(w) == lookup_one_len(tree0, rn[w].newname, rn[w].dnew_p)

FirstFailedCheck(w) ==
    IF SourceLookup(w).err # 0 THEN SourceLookup(w).err
    ELSE IF SourceLookup(w).dentry = NEG THEN 0 - ENOENT
    ELSE IF SourceLookup(w).dentry = rn[w].trap THEN 0 - EINVAL
    ELSE IF DestLookup(w).err # 0 THEN DestLookup(w).err
    ELSE IF DestLookup(w).dentry = rn[w].trap THEN 0 - ENOTEMPTY
    ELSE 0

(***************************************************************************)
(* C20: smb_vfs_rename calls vfs_rename at most once, with both parent     *)
(* directories locked, and only after these checks passed in this order:   *)
(* the source resolved to an existing object (else -ENOENT), the source is *)
(* not the trap (else -EINVAL), the destination lookup succeeded, the      *)
(* destination is not the trap (else -ENOTEMPTY); when vfs_rename is       *)
(* called the call returns its result.                                     *)
(***************************************************************************)
C20_RenameChecks ==
    \A w \in Workers :
        IsOp(w, "rename") =>
            /\ Count(ev[w], "vfs_rename") <= 1
            /\ Has(ev[w], "vfs_rename") =>
                  /\ Before(ev[w], "lock_rename", "vfs_rename")
                  /\ Has(ev[w], "unlock_rename") =>
                        Before(ev[w], "vfs_rename", "unlock_rename")
                  /\ pc[w] = "rn_out" => HeldBy(w) = {rn[w].dold_p, rn[w].dnew_p}
                  /\ Has(ev[w], "lookup_old") \/ Has(ev[w], "dget_old")
                  /\ Has(ev[w], "lookup_old") => Before(ev[w], "lookup_old", "lookup_new")
                  /\ Has(ev[w], "dget_old") => Before(ev[w], "dget_old", "lookup_new")
                  /\ Before(ev[w], "lookup_new", "vfs_rename")
                  /\ rn[w].dold \notin {NULL, NEG}
                  /\ tree0[rn[w].dold].kind # "none"
                  /\ rn[w].dold # rn[w].trap
                  /\ rn[w].dnew # NULL
                  /\ rn[w].dnew # rn[w].trap
                  /\ FirstFailedCheck(w) = 0
                  /\ ret[w] = vfs_rename(tree0, rn[w].dold_p, rn[w].dold, rn[w].dnew_p,
                                         rn[w].dnew, rn[w].newname).err
            /\ (RenameLocked(w) /\ ~Has(ev[w], "vfs_rename")) =>
                  /\ FirstFailedCheck(w) # 0
                  /\ ret[w] = FirstFailedCheck(w)

C20_Witness ==
    \E w \in Workers :
        /\ IsOp(w, "rename") /\ Returned(w)
        /\ Has(ev[w], "vfs_rename")
        /\ call[w].oldname # NoName
        /\ rn[w].dnew # NEG
        /\ ret[w] = 0
        /\ tree # tree0

(***************************************************************************)
(* The mode smb_check_attrs leaves in the change set.                      *)
(***************************************************************************)
SetIdBits == {"S_ISUID", "S_ISGID"}

(***************************************************************************)
(* C21: when a mode change is requested, the mode smb_check_attrs leaves   *)
(* has outside the permission mask exactly the bits of the inode's current *)
(* mode, and inside the mask only bits of the requested mode: all of them, *)
(* apart from set-ID bits; when no mode change is requested ia_mode is     *)
(* what the caller passed.                                                 *)
(***************************************************************************)
C21_ModeSanitized ==
    \A w \in Workers :
        Sanitized(w) =>
            LET req == call[w].attrs.ia_mode
                cur == sa[w].before.i_mode
                out == sa[w].attrs.ia_mode
            IN  IF SetsMode(w)
                THEN /\ out \ S_IALLUGO = cur \ S_IALLUGO
                     /\ out \cap S_IALLUGO \subseteq req \cap S_IALLUGO
                     /\ (req \cap S_IALLUGO) \ SetIdBits \subseteq out
                ELSE out = req

C21_Witness ==
    \E w \in Workers :
        /\ Sanitized(w) /\ SetsMode(w)
        /\ "S_IFDIR" \in call[w].attrs.ia_mode
        /\ "S_IRUSR" \in call[w].attrs.ia_mode
        /\ "S_IFREG" \in sa[w].before.i_mode
        /\ "S_IRUSR" \notin sa[w].before.i_mode
        /\ "S_IXGRP" \in sa[w].before.i_mode
        /\ sa[w].attrs.ia_mode = {"S_IFREG", "S_IRUSR"}

(***************************************************************************)
(* Privilege revocation by smb_check_attrs.                                *)
(***************************************************************************)
KillFlags == {"ATTR_KILL_SUID", "ATTR_KILL_SGID"}

RevocationDue(w) == "S_IFDIR" \notin sa[w].before.i_mode /\ OwnerChanges(w)

(***************************************************************************)
(* C22: smb_check_attrs revokes privilege exactly when the inode is not a  *)
(* directory and the request sets a user or a group that differs from the  *)
(* inode's.  Then, with a mode change, S_ISUID is cleared from the new     *)
(* mode and S_ISGID is cleared exactly when the new mode has S_IXGRP;      *)
(* without a mode change both removal flags are set and ia_mode is left    *)
(* alone.  Otherwise no set-ID bit of the request is cleared and no        *)
(* removal flag is set.                                                    *)
(***************************************************************************)
C22_RevocationOnChown ==
    \A w \in Workers :
        Sanitized(w) =>
            LET req == call[w].attrs.ia_mode
                out == sa[w].attrs.ia_mode
                flags == sa[w].attrs.ia_valid \cap KillFlags
            IN  IF RevocationDue(w)
                THEN IF SetsMode(w)
                     THEN /\ "S_ISUID" \notin out
                          /\ ("S_ISGID" \in out) <=>
                                ("S_ISGID" \in req /\ "S_IXGRP" \notin req)
                     ELSE /\ flags = KillFlags
                          /\ out = req
                ELSE /\ flags = {}
                     /\ out \cap SetIdBits = req \cap SetIdBits

C22_Witness ==
    \E w \in Workers :
        /\ Sanitized(w) /\ SetsMode(w) /\ OwnerChanges(w)
        /\ "S_IFDIR" \in sa[w].before.i_mode
        /\ SetIdBits \cup {"S_IXGRP"} \subseteq call[w].attrs.ia_mode
        /\ SetIdBits \subseteq sa[w].attrs.ia_mode
        /\ sa[w].attrs.ia_valid = call[w].attrs.ia_valid

(***************************************************************************)
(* The step that makes the backend call of a write or of a truncate by     *)
(* handle, and the bytes the call touches.                                 *)
(***************************************************************************)
BackendWriteStep(w) == pc[w] = "w_write" /\ pc'[w] # "w_write"

BackendTruncateStep(w) == pc[w] = "t_trunc" /\ pc'[w] # "t_trunc"

LockedByOther(w, start, len) == OtherOwnerCovers(flc_posix, fp[w], start, len, F_WRLCK)

(***************************************************************************)
(* C23: whatever lock requests other owners make through smb_vfs_lock      *)
(* while the call runs, vfs_write is never called while another owner      *)
(* holds a lock on a byte of the written range, and vfs_truncate of a      *)
(* truncate by handle with leases disabled is never called while another   *)
(* owner holds a lock on a byte between the old and the new size.          *)
(***************************************************************************)
C23_BackendRespectsLocks ==
    [][\A w \in Workers :
          /\ BackendWriteStep(w) =>
                ~LockedByOther(w, call[w].pos, call[w].count)
          /\ (BackendTruncateStep(w) /\ ~oplocks_enable) =>
                LET isz == i_size[FileDentry(fp[w])]
                    size == call[w].size
                IN  ~LockedByOther(w, Min(size, isz), Max(size, isz) - Min(size, isz))]_vars

(***************************************************************************)
(* The step of a rename by identifier that calls vfs_rename.               *)
(***************************************************************************)
RenameByFid(w) == IsOp(w, "rename") /\ call[w].oldname = NoName /\ fp[w] # NULL

BackendRenameStep(w) ==
    /\ pc[w] = "rn_body"
    /\ ~Has(ev[w], "vfs_rename")
    /\ Has(ev'[w], "vfs_rename")

(***************************************************************************)
(* C24: when a rename by identifier calls vfs_rename, the parent of the    *)
(* source dentry is the source parent directory the call read from the     *)
(* handle and locked, whatever a concurrent rename did to the same object  *)
(* in between.                                                             *)
(***************************************************************************)
C24_LockedParentIsParent ==
    [][\A w \in Workers :
          (RenameByFid(w) /\ BackendRenameStep(w)) =>
              /\ tree[FileDentry(fp[w])].parent = rn[w].dold_p
              /\ i_mutex[tree[FileDentry(fp[w])].parent] = w]_vars

(***************************************************************************)
(* C25: every range handed to smb_vfs_locks_mandatory_area by read, write  *)
(* and truncate has start <= end, and a probe answers -EAGAIN only when a  *)
(* lock of another handle covers a byte the call touches; in particular a  *)
(* write of no bytes and a truncate to the current size are not refused.   *)
(***************************************************************************)
C25_ProbedRangesWellFormed ==
    \A w \in Workers :
        \A i \in DOMAIN probed[w] :
            /\ probed[w][i].start <= probed[w][i].end
            /\ probed[w][i].err = 0 - EAGAIN => probeConflict[w]

ListXattr(w) == IsOp(w, "listxattr") /\ Returned(w)

(***************************************************************************)
(* C26: when smb_vfs_listxattr returns, a buffer it allocated was stored   *)
(* in *list or freed; with a result of zero or below no allocated buffer   *)
(* is left that nothing points to.                                         *)
(***************************************************************************)
C26_ListBufferNotLeaked ==
    \A w \in Workers :
        (ListXattr(w) /\ Has(ev[w], "vmalloc")) =>
            /\ outbuf[w] = <<"vlist">> \/ heap[w] = "freed"
            /\ ret[w] <= 0 => heap[w] = "freed"

====
